---- MODULE Spec2Model ----
(***************************************************************************)
(* Verification model of the VAST unwrapper proxy.                         *)
(*                                                                         *)
(*   - the address classifier isPrivateLikeIp with JavaScript's 32-bit     *)
(*     integer operators (hardened api/openrtb2.mjs)                       *)
(*   - the hardened /openrtb2 handler: resolveSecureEndpoint, secureFetch  *)
(*   - the wrapper resolver lib/resolver.mjs: resolveToInlineWithMeta,     *)
(*     mergeWrapperIntoInline, mergeImpressions, the TTL cache             *)
(***************************************************************************)
EXTENDS Integers, Sequences, FiniteSets, TLC

VARIABLES
    \* one isPrivateLikeIp call
    ip, verdict, ipPc,
    \* hardened /openrtb2 handler (one invocation)
    hpc,            \* position of the handler
    hreq,           \* the inbound request
    henv,           \* process.env
    candidate,      \* what getCandidateEndpoint returned
    current,        \* secureFetch: URL of the current hop
    redirects,      \* secureFetch: redirects followed
    requests,       \* the fetch() calls made, in order: the URL, and whether
                    \* every address its host resolved to at validation was
                    \* outside the documented forbidden ranges
    lastAddrs,      \* addresses of the latest resolveAndCheckHost lookup
    timer,          \* secureFetch's deadline timer
    hresp,          \* the response secureFetch returned
    hstatus,        \* status of the response sent (0: none yet)
    \* wrapper resolver lib/resolver.mjs
    cache,          \* the module's Map: entries [key, val, exp]
    now,            \* Date.now()
    impDedup,       \* IMP_DEDUP
    call,           \* per resolveToInlineWithMeta call: its locals and position
    fetches,        \* the fetch() calls made, in order
    \* one mergeWrapperIntoInline call
    mW, mI, mOut, mPc,
    \* one readBodyLimited call
    bodyResult,     \* what the call returned or threw
    \* the bid loop of the /openrtb2 handler api/openrtb2.mjs
    seatbid,        \* bidResp.seatbid: the bids of each seat
    loop            \* position and locals of the loop, and the response sent

ipVars == <<ip, verdict, ipPc>>

hVars == <<hpc, hreq, henv, candidate, current, redirects, requests, lastAddrs, timer, hresp, hstatus>>

rVars == <<cache, now, impDedup, call, fetches>>

mVars == <<mW, mI, mOut, mPc>>

bVars == <<bodyResult, seatbid, loop>>

vars == <<ip, verdict, ipPc,
          hpc, hreq, henv, candidate, current, redirects, requests, lastAddrs, timer, hresp, hstatus,
          cache, now, impDedup, call, fetches,
          mW, mI, mOut, mPc,
          bodyResult, seatbid, loop>>

None == "none"

(***************************************************************************)
(* JavaScript numbers and the 32-bit integer operators.                    *)
(* A number n with |n| < 2^32 is the record [hi, lo] with n = hi*2^16 + lo *)
(* and 0 <= lo < 2^16: the literals 0xAC100000 .. 0xFFFF0000 exceed the    *)
(* integers of TLC, the halves do not.  ToInt32 is the conversion every    *)
(* operand of <<, | and & goes through and every result comes out of.      *)
(***************************************************************************)
W16 == 2^16

Hex32(h, l) ==
    [hi |-> h, lo |-> l]

OctetNum(o) ==
    [hi |-> 0, lo |-> o]

ToInt32(x) ==
    LET p == x.hi % W16
    IN  [hi |-> IF p >= 2^15 THEN p - W16 ELSE p, lo |-> x.lo]

RECURSIVE And16(_, _, _)
And16(a, b, bits) ==
    IF bits = 0 THEN 0
    ELSE (IF a % 2 = 1 /\ b % 2 = 1 THEN 1 ELSE 0)
         + 2 * And16(a \div 2, b \div 2, bits - 1)

RECURSIVE Or16(_, _, _)
Or16(a, b, bits) ==
    IF bits = 0 THEN 0
    ELSE (IF a % 2 = 1 \/ b % 2 = 1 THEN 1 ELSE 0)
         + 2 * Or16(a \div 2, b \div 2, bits - 1)

\* x & y
BitAnd(x, y) ==
    ToInt32([hi |-> And16(x.hi % W16, y.hi % W16, 16),
             lo |-> And16(x.lo, y.lo, 16)])

\* x | y
BitOr(x, y) ==
    ToInt32([hi |-> Or16(x.hi % W16, y.hi % W16, 16),
             lo |-> Or16(x.lo, y.lo, 16)])

\* x << k
RECURSIVE Shl(_, _)
Shl(x, k) ==
    IF k = 0 THEN ToInt32(x)
    ELSE Shl([hi |-> ((x.hi % W16) * 2 + (x.lo \div 2^15)) % W16,
              lo |-> (x.lo * 2) % W16], k - 1)

(***************************************************************************)
(* Addresses.  An IPv4 address is its four octets (the decimal text        *)
(* split(".").map(Number) reads back); an IPv6 address is its text, one    *)
(* character per element; anything else is not an IP (net.isIP = 0).       *)
(***************************************************************************)
V4(a, b, c, d) ==
    [v |-> 4, o |-> <<a, b, c, d>>, txt |-> <<>>]

V6(t) ==
    [v |-> 6, o |-> <<>>, txt |-> t]

NotIp ==
    [v |-> 0, o |-> <<>>, txt |-> <<>>]

ToLowerChar(ch) ==
    CASE ch = "A" -> "a" [] ch = "B" -> "b" [] ch = "C" -> "c"
      [] ch = "D" -> "d" [] ch = "E" -> "e" [] ch = "F" -> "f"
      [] OTHER -> ch

toLowerCase(t) ==
    [k \in 1..Len(t) |-> ToLowerChar(t[k])]

startsWith(t, p) ==
    Len(t) >= Len(p) /\ SubSeq(t, 1, Len(p)) = p

\* n = (parts[0] << 24) | (parts[1] << 16) | (parts[2] << 8) | parts[3]
Ipv4Number(o) ==
    BitOr(BitOr(BitOr(Shl(OctetNum(o[1]), 24), Shl(OctetNum(o[2]), 16)),
                Shl(OctetNum(o[3]), 8)),
          OctetNum(o[4]))

\* inRange = (start, mask) => (n & mask) === start: the left side is a signed
\* 32-bit result, the right side the literal's own (non-negative) value
inRange(n, start, mask) ==
    BitAnd(n, mask) = start

isPrivateLikeIp(addr) ==
    IF addr.v = 0 THEN FALSE
    ELSE IF addr.v = 4 THEN
        LET n == Ipv4Number(addr.o)
            topNibble == BitAnd(n, Hex32(61440, 0))          \* n & 0xF0000000
        IN  \/ inRange(n, Hex32(2560, 0),  Hex32(65280, 0))  \* 0x0A000000, 0xFF000000
            \/ inRange(n, Hex32(44048, 0), Hex32(65520, 0))  \* 0xAC100000, 0xFFF00000
            \/ inRange(n, Hex32(49320, 0), Hex32(65535, 0))  \* 0xC0A80000, 0xFFFF0000
            \/ inRange(n, Hex32(32512, 0), Hex32(65280, 0))  \* 0x7F000000, 0xFF000000
            \/ inRange(n, Hex32(43518, 0), Hex32(65535, 0))  \* 0xA9FE0000, 0xFFFF0000
            \/ inRange(n, Hex32(25664, 0), Hex32(65472, 0))  \* 0x64400000, 0xFFC00000
            \/ topNibble = Hex32(57344, 0)                   \* === 0xE0000000
            \/ topNibble = Hex32(61440, 0)                   \* === 0xF0000000
    ELSE
        LET lower == toLowerCase(addr.txt)
        IN  \/ lower = <<":", ":", "1">>
            \/ startsWith(lower, <<"f", "e", "8">>)
            \/ startsWith(lower, <<"f", "e", "9">>)
            \/ startsWith(lower, <<"f", "e", "a">>)
            \/ startsWith(lower, <<"f", "e", "b">>)
            \/ startsWith(lower, <<"f", "c">>)
            \/ startsWith(lower, <<"f", "d">>)
            \/ startsWith(lower, <<"f", "f">>)

(***************************************************************************)
(* The ranges the classifier is documented to reject (its range comments   *)
(* and section 4.1), by octet arithmetic.                                  *)
(***************************************************************************)
InDocumentedV4Range(o) ==
    \/ o[1] = 10                                   \* 10/8
    \/ o[1] = 172 /\ o[2] >= 16 /\ o[2] <= 31      \* 172.16/12
    \/ o[1] = 192 /\ o[2] = 168                    \* 192.168/16
    \/ o[1] = 127                                  \* 127/8
    \/ o[1] = 169 /\ o[2] = 254                    \* 169.254/16
    \/ o[1] = 100 /\ o[2] >= 64 /\ o[2] <= 127     \* 100.64/10
    \/ o[1] >= 224 /\ o[1] <= 239                  \* 224/4
    \/ o[1] >= 240                                 \* 240/4

InDocumentedV6Range(t) ==
    LET lower == toLowerCase(t)
    IN  \/ lower = <<":", ":", "1">>                       \* ::1
        \/ \E c \in {"8", "9", "a", "b"} :
                startsWith(lower, <<"f", "e", c>>)          \* fe80::/10
        \/ \E c \in {"c", "d"} : startsWith(lower, <<"f", c>>)   \* fc00::/7
        \/ startsWith(lower, <<"f", "f">>)                  \* ff00::/8

InDocumentedRange(a) ==
    IF a.v = 4 THEN InDocumentedV4Range(a.o)
    ELSE IF a.v = 6 THEN InDocumentedV6Range(a.txt)
    ELSE FALSE

(***************************************************************************)
(* VAST documents as parser.parse returns them.  A document is its first   *)
(* Ad: which of InLine / Wrapper it holds, the wrapper's VASTAdTagURI, and *)
(* the tracking surface.  A creative records whether it has a Linear child *)
(* and that Linear's TrackingEvents and ClickTracking.                     *)
(***************************************************************************)
Tracking(e, u) ==
    [event |-> e, url |-> u]

\* <Impression>u</Impression>: a string
ImpString(u) ==
    [form |-> "string", text |-> u, id |-> None, origin |-> None]

\* <Impression id="..">u</Impression>: an object with "#text"
ImpObject(u, id) ==
    [form |-> "text", text |-> u, id |-> id, origin |-> None]

NullImp ==
    [form |-> "null", text |-> "", id |-> None, origin |-> None]

Creative(lin, trk) ==
    [Linear |-> lin, Tracking |-> trk, ClickTracking |-> <<>>]

Vast(ad, tag, imp, cre) ==
    [ad |-> ad, tag |-> tag, Impression |-> imp, Creatives |-> cre,
     Verification |-> <<>>, Viewable |-> <<>>, ViewUndetermined |-> <<>>,
     NotViewable |-> <<>>, Error |-> <<>>]

NoDoc ==
    Vast("None", None, <<>>, <<>>)

\* builder.build(doc): the serialized document; NoXml is null
build(doc) ==
    [present |-> TRUE, xml |-> doc, form |-> "built"]

NoXml ==
    [present |-> FALSE, xml |-> NoDoc, form |-> "none"]

NoResult ==
    [status |-> "none", xml |-> NoXml, depth |-> 0, cached |-> None]

(***************************************************************************)
(* Component states while another component is the one being run.         *)
(***************************************************************************)
NoUrl ==
    [scheme |-> None, creds |-> FALSE, host |-> None]

ClassifierIdle ==
    /\ ip = NotIp
    /\ verdict = None
    /\ ipPc = "idle"

NoReq ==
    [method |-> None, b64 |-> None, header |-> None, qp |-> None, body |-> None]

NoEnv ==
    [allowlist |-> {}, prod |-> FALSE, default |-> None]

NoResp ==
    [status |-> 0, loc |-> None, ct |-> None, cl |-> -1, chunks |-> <<>>]

HandlerIdle ==
    /\ hpc = "idle"
    /\ hreq = NoReq
    /\ henv = NoEnv
    /\ candidate = None
    /\ hresp = NoResp
    /\ current = NoUrl
    /\ redirects = 0
    /\ requests = <<>>
    /\ lastAddrs = {}
    /\ timer = "unarmed"
    /\ hstatus = 0

ResolverIdle ==
    /\ cache = {}
    /\ now = 0
    /\ impDedup = FALSE
    /\ call = <<>>
    /\ fetches = <<>>

NoBody ==
    [pc |-> "idle", ok |-> FALSE, len |-> 0, read |-> 0, cancelled |-> FALSE]

NoLoop ==
    [pc |-> "idle", sb |-> 0, b |-> 0, upstream |-> 0, sent |-> 0,
     didUnwrap |-> FALSE, anyReplaced |-> FALSE, anyCacheHit |-> FALSE,
     anyMergedWrapperImps |-> FALSE]

BidsIdle ==
    /\ bodyResult = NoBody
    /\ seatbid = <<>>
    /\ loop = NoLoop

MergeIdle ==
    /\ mW = NoDoc
    /\ mI = NoDoc
    /\ mOut = NoDoc
    /\ mPc = "idle"

(***************************************************************************)
(* Classifier specification: every first octet, the second octets around   *)
(* each range edge, and sample low octets.                                 *)
(***************************************************************************)
FirstOctets == 0..255

SecondOctets == {0, 15, 16, 31, 32, 63, 64, 127, 128, 168, 169, 253, 254, 255}

ThirdOctets == {0, 169}

FourthOctets == {1, 5, 254}

V6Samples ==
    { <<":", ":", "1">>,
      <<"f", "e", "8", "0", ":", ":", "1">>,
      <<"F", "E", "B", "F", ":", ":", "1">>,
      <<"f", "c", "0", "0", ":", ":", "1">>,
      <<"f", "d", "1", "2", ":", ":", "1">>,
      <<"f", "f", "0", "2", ":", ":", "1">>,
      <<"2", "6", "0", "6", ":", ":", "1">> }

IpInputs ==
    {V4(a, b, c, d) : a \in FirstOctets, b \in SecondOctets,
                      c \in ThirdOctets, d \in FourthOctets}
    \cup {V6(t) : t \in V6Samples}
    \cup {NotIp}

IpInit ==
    /\ BidsIdle
    /\ ip \in IpInputs
    /\ verdict = None
    /\ ipPc = "input"
    /\ HandlerIdle
    /\ ResolverIdle
    /\ MergeIdle

Classify ==
    /\ ipPc = "input"
    /\ verdict' = isPrivateLikeIp(ip)
    /\ ipPc' = "classified"
    /\ UNCHANGED <<ip, bVars, hVars, rVars, mVars>>

IpNext ==
    Classify

SpecIp ==
    IpInit /\ [][IpNext]_vars

\* C2: for every IPv4 address, isPrivateLikeIp answers true exactly when the
\* address lies in 10/8, 172.16/12, 192.168/16, 127/8, 169.254/16, 100.64/10,
\* 224/4 or 240/4.
C2_ClassifierMatchesRanges ==
    (ipPc = "classified" /\ ip.v = 4) => (verdict = InDocumentedV4Range(ip.o))

(***************************************************************************)
(* URLs.  A URL text is parsed by new URL(text) into scheme, credentials   *)
(* and hostname, or the constructor throws (NoUrl).                        *)
(***************************************************************************)
Url(s, c, h) ==
    [scheme |-> s, creds |-> c, host |-> h]

\* new URL(text): scheme, userinfo and hostname; the hostname of an IPv6
\* literal keeps its brackets
NewURL(text) ==
    CASE text = "https://bid.example/rtb"     -> Url("https", FALSE, "bid.example")
      [] text = "https://cdn.example/rtb"     -> Url("https", FALSE, "cdn.example")
      [] text = "http://bid.example/rtb"      -> Url("http", FALSE, "bid.example")
      [] text = "https://u:p@bid.example/rtb" -> Url("https", TRUE, "bid.example")
      [] text = "https://203.0.113.9/rtb"     -> Url("https", FALSE, "203.0.113.9")
      [] text = "https://[::1]/rtb"           -> Url("https", FALSE, "[::1]")
      [] OTHER -> NoUrl

\* new URL(loc, base): a relative Location keeps the base's origin
NewURLWithBase(loc, base) ==
    IF loc = "/next" THEN base ELSE NewURL(loc)

UrlTexts ==
    {"https://bid.example/rtb", "https://cdn.example/rtb", "http://bid.example/rtb",
     "https://u:p@bid.example/rtb", "https://203.0.113.9/rtb", "not a url"}

\* net.isIP(hostname)
netIsIP(host) ==
    IF host = "203.0.113.9" THEN 4
    ELSE IF host = "::1" THEN 6
    ELSE 0

\* hosts that are IP literals, as the URL parser reports them
IpLiteralHosts == {"203.0.113.9", "[::1]"}

\* Buffer.from(text, "base64").toString("utf8"); a text without a complete
\* base64 group, such as "!", decodes to the empty string, which is falsy
\* like an absent value
B64Decode(text) ==
    CASE text = "aHR0cHM6Ly9iaWQuZXhhbXBsZS9ydGI=" -> "https://bid.example/rtb"
      [] text = "aHR0cDovL2JpZC5leGFtcGxlL3J0Yg==" -> "http://bid.example/rtb"
      [] text = "aHR0cHM6Ly9jZG4uZXhhbXBsZS9ydGI=" -> "https://cdn.example/rtb"
      [] OTHER -> None

(***************************************************************************)
(* The addresses DNS may answer with.                                      *)
(***************************************************************************)
MaxAddrs == 2

Loopback4 == V4(127, 0, 0, 1)

Private10 == V4(10, 0, 0, 5)

Metadata4 == V4(169, 254, 169, 254)

Public4 == V4(93, 184, 216, 34)

Loopback6 == V6(<<":", ":", "1">>)

Public6 == V6(<<"2", "6", "0", "6", ":", ":", "1">>)

V4Pool == {Loopback4, Private10, Metadata4, Public4}

V6Pool == {Loopback6, Public6}

DnsAnswers ==
    {a \in SUBSET (V4Pool \cup V6Pool) : Cardinality(a) <= MaxAddrs}

\* the documented ranges on the addresses of the pool
DocumentedForbiddenOfPool ==
    [a \in V4Pool \cup V6Pool |-> InDocumentedRange(a)]

\* isPrivateLikeIp on the addresses of the pool, evaluated once
PrivateLikeOfPool ==
    [a \in V4Pool \cup V6Pool |-> isPrivateLikeIp(a)]


(***************************************************************************)
(* Endpoint validation of the hardened handler.                            *)
(***************************************************************************)
parseAllowlist(env) ==
    env.allowlist

\* the URL when it is https without credentials, else null
StrictUrl(url) ==
    IF url = NoUrl THEN NoUrl
    ELSE IF url.scheme # "https" THEN NoUrl
    ELSE IF url.creds THEN NoUrl
    ELSE url

isHttpsUrlStrict(text) ==
    StrictUrl(NewURL(text))

isAllowedHost(url, allowlist) ==
    allowlist = {} \/ url.host \in allowlist

\* getBidEndpoint of the earlier handlers: the query parameter is read
\* whatever NODE_ENV is
getCandidateEndpointQueryAlways(req, env) ==
    LET fromClient ==
            IF req.b64 # None THEN B64Decode(req.b64)
            ELSE IF req.header # None THEN req.header
            ELSE req.qp
    IN  IF fromClient # None THEN fromClient ELSE env.default

getCandidateEndpoint(req, env) ==
    LET fromClient ==
            IF req.b64 # None THEN B64Decode(req.b64)
            ELSE IF req.header # None THEN req.header
            ELSE IF env.prod THEN None
            ELSE req.qp
    IN  IF fromClient # None THEN fromClient ELSE env.default

Failure(status, addrs) ==
    [ok |-> FALSE, status |-> status, url |-> NoUrl, addrs |-> addrs]

Success(url, addrs) ==
    [ok |-> TRUE, status |-> 0, url |-> url, addrs |-> addrs]

\* a4, a6: what dns.resolve4 / dns.resolve6 answer for the host (a lookup
\* that throws adds nothing)
resolveAndCheckHost(url, a4, a6) ==
    IF netIsIP(url.host) # 0 THEN Failure(403, {})
    ELSE LET addrs == a4 \cup a6
         IN  IF addrs = {} THEN Failure(502, addrs)
             ELSE IF \E a \in addrs : PrivateLikeOfPool[a] THEN Failure(403, addrs)
             ELSE Success(url, addrs)

\* a validation that looks the host up before it consults the allowlist
resolveSecureEndpointLookupFirst(req, env, a4, a6) ==
    LET allowlist == parseAllowlist(env)
        cand == getCandidateEndpoint(req, env)
        url == isHttpsUrlStrict(cand)
    IN  IF cand = None THEN Failure(400, {})
        ELSE IF url = NoUrl THEN Failure(400, {})
        ELSE LET r == resolveAndCheckHost(url, a4, a6)
             IN  IF ~r.ok THEN r
                 ELSE IF ~isAllowedHost(url, allowlist) THEN Failure(403, r.addrs)
                 ELSE r

resolveSecureEndpoint(req, env, a4, a6) ==
    LET allowlist == parseAllowlist(env)
        cand == getCandidateEndpoint(req, env)
        url == isHttpsUrlStrict(cand)
    IN  IF cand = None THEN Failure(400, {})
        ELSE IF url = NoUrl THEN Failure(400, {})
        ELSE IF ~isAllowedHost(url, allowlist) THEN Failure(403, {})
        ELSE resolveAndCheckHost(url, a4, a6)

(***************************************************************************)
(* The network seen by the handler: DNS answers and upstream responses.    *)
(***************************************************************************)
MaxChunks == 2

MaxBodyBytes == 3

maxRedirects == 3

RedirectStatuses == {301, 302, 303, 307, 308}

ChunkSeqs ==
    UNION {[1..n -> {2}] : n \in 0..MaxChunks}

RedirectResponses ==
    {[status |-> st, loc |-> l, ct |-> None, cl |-> -1, chunks |-> <<>>] :
        st \in {302, 307}, l \in UrlTexts \cup {"/next", None}}

FinalResponses ==
    {[status |-> st, loc |-> None, ct |-> ct, cl |-> cl, chunks |-> ch] :
        st \in {200, 404}, ct \in {"application/json", "text/html", None},
        cl \in {-1, MaxBodyBytes + 1}, ch \in ChunkSeqs}

RECURSIVE SumSeq(_)
SumSeq(q) ==
    IF q = <<>> THEN 0 ELSE q[1] + SumSeq(Tail(q))

\* a limit that a body of exactly maxBytes already passes
exceedsOrReaches(total, maxBytes) ==
    total >= maxBytes

\* if (total > maxBytes)
exceeds(total, maxBytes) ==
    total > maxBytes

\* the reader loop from its k-th reader.read(): the chunk is counted, then
\* either the stream is cancelled and the call throws, or the chunk is kept
RECURSIVE readChunks(_, _, _, _)
readChunks(chunks, k, total, maxBytes) ==
    IF k > Len(chunks)
    THEN [ok |-> TRUE, len |-> total, read |-> Len(chunks), cancelled |-> FALSE]
    ELSE IF exceeds(total + chunks[k], maxBytes)
         THEN [ok |-> FALSE, len |-> 0, read |-> k, cancelled |-> TRUE]
         ELSE readChunks(chunks, k + 1, total + chunks[k], maxBytes)

\* readBodyLimited: the length of the buffer returned, or the 502 failure,
\* with the number of chunks read (cl = -1: no content-length header)
readBodyLimited(resp, maxBytes) ==
    IF resp.cl # -1 /\ resp.cl > maxBytes
    THEN [ok |-> FALSE, len |-> 0, read |-> 0, cancelled |-> FALSE]
    ELSE readChunks(resp.chunks, 1, 0, maxBytes)

(***************************************************************************)
(* The hardened /openrtb2 handler, one invocation.                         *)
(***************************************************************************)
HandlerRequests ==
    {[method |-> "POST", b64 |-> None, header |-> h, qp |-> None, body |-> b] :
        h \in UrlTexts \cup {None}, b \in {"json", "invalid"}}
    \cup
    {[method |-> m, b64 |-> None, header |-> None, qp |-> None, body |-> "json"] :
        m \in {"OPTIONS", "GET"}}

HandlerEnvs ==
    {[allowlist |-> al, prod |-> TRUE, default |-> d] :
        al \in {{}, {"bid.example"}}, d \in {None, "https://bid.example/rtb"}}

HandlerInit ==
    /\ ClassifierIdle
    /\ BidsIdle
    /\ ResolverIdle
    /\ MergeIdle
    /\ hpc = "start"
    /\ hreq \in HandlerRequests
    /\ henv \in HandlerEnvs
    /\ candidate = None
    /\ current = NoUrl
    /\ redirects = 0
    /\ requests = <<>>
    /\ lastAddrs = {}
    /\ timer = "unarmed"
    /\ hresp = NoResp
    /\ hstatus = 0

SendStatus(status) ==
    /\ hstatus' = status
    /\ hpc' = "done"

\* the candidate endpoint of the request, parsed
candidateUrl ==
    LET cand == getCandidateEndpoint(hreq, henv)
    IN  IF cand = None THEN NoUrl ELSE NewURL(cand)

\* what the name servers can answer for a host: a bracketed literal is no
\* host name and has no records
dnsAnswersFor(host) ==
    IF host = "[::1]" THEN {{}} ELSE DnsAnswers

\* method dispatch and step 1: resolve + validate the endpoint
HandlerStart ==
    /\ hpc = "start"
    /\ IF hreq.method = "OPTIONS" THEN
            /\ SendStatus(204)
            /\ UNCHANGED <<candidate, current, lastAddrs>>
       ELSE IF hreq.method # "POST" THEN
            /\ SendStatus(405)
            /\ UNCHANGED <<candidate, current, lastAddrs>>
       ELSE \E a \in dnsAnswersFor(candidateUrl.host) :
            LET r == resolveSecureEndpoint(hreq, henv, a \cap V4Pool, a \cap V6Pool)
            IN  /\ candidate' = getCandidateEndpoint(hreq, henv)
                /\ lastAddrs' = r.addrs
                /\ IF r.ok
                   THEN /\ current' = r.url
                        /\ hpc' = "body"
                        /\ UNCHANGED hstatus
                   ELSE /\ SendStatus(r.status)
                        /\ UNCHANGED current
    /\ UNCHANGED <<ipVars, bVars, rVars, mVars, hreq, henv, redirects, requests, timer, hresp>>

\* a finally block that leaves the timer alone
cancelSkipped(t) ==
    t

\* withTimeout's cancel, called in secureFetch's finally: clearTimeout(id)
cancel(t) ==
    IF t = "armed" THEN "cleared" ELSE t

\* step 2: parse the JSON body; step 3 begins: secureFetch arms its deadline
HandlerParseBody ==
    /\ hpc = "body"
    /\ IF hreq.body = "invalid"
       THEN /\ SendStatus(400)
            /\ UNCHANGED timer
       ELSE /\ hpc' = "fetch"
            /\ timer' = "armed"
            /\ UNCHANGED hstatus
    /\ UNCHANGED <<ipVars, bVars, rVars, mVars, hreq, henv, candidate, current, redirects, requests, lastAddrs, hresp>>

\* secureFetch: fetch(current, {redirect: "manual", signal})
IssueRequest ==
    /\ hpc = "fetch"
    /\ requests' = Append(requests,
            [url |-> current, public |-> \A a \in lastAddrs : ~DocumentedForbiddenOfPool[a]])
    /\ hpc' = "inflight"
    /\ UNCHANGED <<ipVars, bVars, rVars, mVars, hreq, henv, candidate, current, redirects, lastAddrs, timer, hresp, hstatus>>

\* a ceiling that lets one more redirect through
redirectsExhaustedLate(n) ==
    n > maxRedirects

\* if (redirects >= maxRedirects) throw
redirectsExhausted(n) ==
    n >= maxRedirects

\* the checks secureFetch makes on a redirect before following it
RedirectCheck(resp, a4, a6) ==
    IF redirectsExhausted(redirects) THEN Failure(502, {})
    ELSE IF resp.loc = None THEN Failure(502, {})
    ELSE LET nextUrl == NewURLWithBase(resp.loc, current)
         IN  IF nextUrl = NoUrl THEN Failure(502, {})
             ELSE IF StrictUrl(nextUrl) = NoUrl THEN Failure(403, {})
             ELSE resolveAndCheckHost(nextUrl, a4, a6)

\* a deadline started afresh for the next hop
timerRearmedOnRedirect(t) ==
    "rearmed"

\* current = nextUrl; redirects++; continue: the loop leaves the timer alone
timerOnRedirect(t) ==
    t

\* secureFetch: the hop in flight answers with a redirect
ReceiveRedirect ==
    /\ hpc = "inflight"
    /\ \E resp \in RedirectResponses, a \in DnsAnswers :
        LET r == RedirectCheck(resp, a \cap V4Pool, a \cap V6Pool)
        IN  /\ resp.status \in RedirectStatuses
            /\ lastAddrs' = (IF r.addrs = {} THEN lastAddrs ELSE r.addrs)
            /\ IF r.ok
               THEN /\ current' = r.url
                    /\ redirects' = redirects + 1
                    /\ hpc' = "fetch"
                    /\ timer' = timerOnRedirect(timer)
                    /\ UNCHANGED hstatus
               ELSE /\ SendStatus(r.status)
                    /\ timer' = cancel(timer)
                    /\ UNCHANGED <<current, redirects>>
    /\ UNCHANGED <<ipVars, bVars, rVars, mVars, hreq, henv, candidate, requests, hresp>>

\* secureFetch: the hop in flight answers with anything else, which is returned
ReceiveFinal ==
    /\ hpc = "inflight"
    /\ \E resp \in FinalResponses :
        /\ resp.status \notin RedirectStatuses
        /\ hresp' = resp
    /\ hpc' = "deliver"
    /\ timer' = cancel(timer)
    /\ UNCHANGED <<ipVars, bVars, rVars, mVars, hreq, henv, candidate, current, redirects, requests, lastAddrs, hstatus>>

\* fetch() rejects: connection failure
NetworkFailure ==
    /\ hpc = "inflight"
    /\ SendStatus(502)
    /\ timer' = cancel(timer)
    /\ UNCHANGED <<ipVars, bVars, rVars, mVars, hreq, henv, candidate, current, redirects, requests, lastAddrs, hresp>>

\* the deadline fires: the request in flight is aborted, or the next
\* fetch() is refused on the aborted signal
DeadlineFires ==
    /\ timer = "armed"
    /\ hpc = "inflight" \/ (hpc = "fetch" /\ redirects > 0)
    /\ SendStatus(504)
    /\ timer' = "fired"
    /\ UNCHANGED <<ipVars, bVars, rVars, mVars, hreq, henv, candidate, current, redirects, requests, lastAddrs, hresp>>

\* content-type check, bounded body read, reply
Deliver ==
    /\ hpc = "deliver"
    /\ LET ct == IF hresp.ct = None THEN "application/json" ELSE hresp.ct
           body == readBodyLimited(hresp, MaxBodyBytes)
       IN  IF ct # "application/json" THEN SendStatus(502)
           ELSE IF ~body.ok THEN SendStatus(502)
           ELSE SendStatus(hresp.status)
    /\ UNCHANGED <<ipVars, bVars, rVars, mVars, hreq, henv, candidate, current, redirects, requests, lastAddrs, timer, hresp>>

HandlerNext ==
    \/ HandlerStart
    \/ HandlerParseBody
    \/ IssueRequest
    \/ ReceiveRedirect
    \/ ReceiveFinal
    \/ NetworkFailure
    \/ DeadlineFires
    \/ Deliver

SpecHandler ==
    HandlerInit /\ [][HandlerNext]_vars

\* The four addresses section 8 names.
NamedForbidden == {Loopback4, Private10, Metadata4, Loopback6}

\* C1: a candidate endpoint whose hostname resolves to 127.0.0.1, 10.0.0.5,
\* 169.254.169.254 or ::1 is rejected by endpoint validation with status 403,
\* and the invocation sends no HTTP request.
C1_NamedAddressesRejected ==
    (hpc \in {"body", "fetch", "done"} /\ hreq.method = "POST" /\ requests = <<>>
        /\ lastAddrs \cap NamedForbidden # {})
    => (hpc = "done" /\ hstatus = 403)

\* C3: a redirect whose Location host resolves to a private, loopback,
\* link-local or reserved address is never requested, also when every earlier
\* hop's host resolved to public addresses only.
C3_PrivateRedirectTargetNeverRequested ==
    \A i \in 2..Len(requests) :
        (\A j \in 1..(i - 1) : requests[j].public) => requests[i].public

\* C4: with an allowlist configured, every URL secureFetch requests (the
\* initial one and every redirect target) is https, carries no credentials and
\* has an allowlisted host.
C4_EveryHopAllowlisted ==
    henv.allowlist # {} =>
        \A i \in 1..Len(requests) :
            /\ requests[i].url.scheme = "https"
            /\ ~requests[i].url.creds
            /\ requests[i].url.host \in henv.allowlist

\* C21: secureFetch follows at most maxRedirects redirects and so issues at
\* most maxRedirects + 1 requests; once maxRedirects redirects have been
\* followed, whatever answers the request in flight is not followed: the call
\* returns the response, or fails with 502 (504 on the deadline), and no
\* further request is made
C21_RedirectCeiling ==
    /\ [](/\ redirects <= maxRedirects
          /\ Len(requests) <= maxRedirects + 1
          /\ Len(requests) <= redirects + 1)
    /\ [][(hpc = "inflight" /\ redirects = maxRedirects) =>
              /\ hpc' \in {"deliver", "done"}
              /\ redirects' = redirects
              /\ requests' = requests
              /\ hpc' = "done" => hstatus' \in {502, 504}]_vars

\* after maxRedirects redirects and maxRedirects + 1 requests the call failed
C21_Witness ==
    /\ redirects = maxRedirects
    /\ Len(requests) = maxRedirects + 1
    /\ hpc = "done"
    /\ hstatus = 502
    /\ timer = "cleared"
    /\ hresp = NoResp

\* C22: the deadline timer of secureFetch is armed once, before the first
\* request, and following a redirect leaves it as it is; when it fires while
\* a hop is in flight the handler answers 504, and the timer never fires
\* otherwise; a network failure answers 502
C22_OneDeadlineForAllHops ==
    [][/\ (timer' = "armed" /\ timer # "armed") =>
              (timer = "unarmed" /\ requests = <<>> /\ redirects = 0)
       /\ timer' \in {"unarmed", "armed", "cleared", "fired"}
       /\ (hpc = "inflight" /\ hpc' = "fetch") => (timer' = timer /\ timer = "armed")
       /\ (timer' = "fired" /\ timer # "fired") =>
              (timer = "armed" /\ hpc' = "done" /\ hstatus' = 504 /\ requests # <<>>)
       /\ (hpc = "inflight" /\ hpc' = "done" /\ hstatus' = 504) => timer' = "fired"
      ]_vars

\* the deadline fired while the request of a later hop was in flight
C22_Witness ==
    /\ timer = "fired"
    /\ hpc = "done"
    /\ hstatus = 504
    /\ redirects >= 2
    /\ Len(requests) = redirects + 1

\* the candidate is a URL that is not https, or carries credentials, or has a
\* host outside the configured allowlist
candidateInvalid ==
    /\ candidateUrl # NoUrl
    /\ \/ candidateUrl.scheme # "https"
       \/ candidateUrl.creds
       \/ (henv.allowlist # {} /\ candidateUrl.host \notin henv.allowlist)

C26_NonJsonPassedThrough ==
    (/\ hpc = "done"
     /\ hresp # NoResp
     /\ hresp.ct \notin {None, "application/json"})
        => hstatus = hresp.status

\* C37: the deadline timer is still armed while the handler reads the body
\* of the response secureFetch returned, so that a server which stops sending
\* after the headers is cut off by the deadline.
C37_DeadlineArmedDuringBodyRead ==
    hpc = "deliver" => timer = "armed"

SelectAt(s, keep) ==
    LET F[k \in 0..Len(s)] ==
            IF k = 0 THEN <<>>
            ELSE IF k \in keep THEN Append(F[k - 1], s[k])
            ELSE F[k - 1]
    IN  F[Len(s)]

\* the key functions passed to mergeUnique
trackingKey(t) ==
    <<t.event, "|", IF t.url # "" THEN t.url ELSE "[object Object]">>

stringifyKey(v) ==
    <<"json", v>>

textKey(v) ==
    <<"text", v>>

applyKey(keyFn, it) ==
    CASE keyFn = "tracking" -> trackingKey(it)
      [] keyFn = "text" -> textKey(it)
      [] OTHER -> stringifyKey(it)

mergeUnique(a, b, keyFn) ==
    LET all == a \o b
        first == {k \in 1..Len(all) :
                    \A j \in 1..(k - 1) : applyKey(keyFn, all[j]) # applyKey(keyFn, all[k])}
    IN  SelectAt(all, first)

getInline(doc) ==
    doc.ad = "InLine"

getWrapper(doc) ==
    doc.ad = "Wrapper"

getVastAdTagUri(doc) ==
    IF ~getWrapper(doc) THEN None
    ELSE IF doc.tag = "" THEN None
    ELSE doc.tag

normalizeOne(x) ==
    IF x.form = "string" THEN [form |-> "text", text |-> x.text, id |-> None, origin |-> None]
    ELSE IF x.form = "text" THEN x
    ELSE IF x.form = "url" THEN [form |-> "text", text |-> x.text, id |-> x.id, origin |-> None]
    ELSE NullImp

normalizeImpressions(imps) ==
    SelectSeq([k \in 1..Len(imps) |-> normalizeOne(imps[k])],
              LAMBDA o : o.form # "null")

\* the wrapper's entries ahead of the inline's
mergeImpressionsWrapperFirst(wrapperNode, inlineNode, dedup) ==
    LET nw == normalizeImpressions(wrapperNode.Impression)
        wImp == [k \in 1..Len(nw) |-> [nw[k] EXCEPT !.origin = "wrapper"]]
        iImp == normalizeImpressions(inlineNode.Impression)
        all == wImp \o iImp
        unseen == {k \in 1..Len(all) :
                    /\ all[k].text # ""
                    /\ \A j \in 1..(k - 1) : all[j].text # all[k].text}
        merged == IF dedup THEN SelectAt(all, unseen) ELSE all
    IN  IF Len(merged) > 0 THEN merged ELSE inlineNode.Impression

\* the Impression list the inline node has after mergeImpressions
mergeImpressions(wrapperNode, inlineNode, dedup) ==
    LET nw == normalizeImpressions(wrapperNode.Impression)
        wImp == [k \in 1..Len(nw) |-> [nw[k] EXCEPT !.origin = "wrapper"]]
        iImp == normalizeImpressions(inlineNode.Impression)
        all == iImp \o wImp
        unseen == {k \in 1..Len(all) :
                    /\ all[k].text # ""
                    /\ \A j \in 1..(k - 1) : all[j].text # all[k].text}
        merged == IF dedup THEN SelectAt(all, unseen) ELSE all
    IN  IF Len(merged) > 0 THEN merged ELSE inlineNode.Impression

\* toArr(creatives[0]?.Linear ...): the first creative's Linear, if any
firstLinear(creatives) ==
    IF Len(creatives) > 0 /\ creatives[1].Linear THEN <<creatives[1]>> ELSE <<>>

mergeWrapperIntoInline(wrapperDoc, inlineDoc, dedup) ==
    IF ~getWrapper(wrapperDoc) \/ ~getInline(inlineDoc) THEN inlineDoc
    ELSE
        LET w == wrapperDoc
            i == inlineDoc
            wLinear == firstLinear(w.Creatives)
            iLinear == firstLinear(i.Creatives)
            wTrk == IF Len(wLinear) > 0 THEN wLinear[1].Tracking ELSE <<>>
            iTrk == IF Len(iLinear) > 0 THEN iLinear[1].Tracking ELSE <<>>
            mergedTrk == mergeUnique(iTrk, wTrk, "tracking")
            verMerged == mergeUnique(i.Verification, w.Verification, "json")
            mergedViewable == mergeUnique(i.Viewable, w.Viewable, "text")
            mergedUndet == mergeUnique(i.ViewUndetermined, w.ViewUndetermined, "text")
            viKeys == Len(mergedViewable) > 0 \/ Len(mergedUndet) > 0
        IN  [i EXCEPT
                !.Impression = mergeImpressions(w, i, dedup),
                !.Creatives = IF Len(iLinear) > 0
                              THEN [@ EXCEPT ![1].Tracking = mergedTrk]
                              ELSE @,
                !.Verification = IF Len(verMerged) > 0 THEN verMerged ELSE @,
                !.Viewable = IF viKeys THEN mergedViewable ELSE @,
                !.ViewUndetermined = IF viKeys THEN mergedUndet ELSE @,
                !.NotViewable = IF viKeys THEN <<>> ELSE @]

\* the wrappers merged in the order they were fetched, outermost first
mergeAllOutermostFirst(wrappers, doc, dedup) ==
    LET n == Len(wrappers)
        F[k \in 0..n] ==
            IF k = 0 THEN doc
            ELSE mergeWrapperIntoInline(wrappers[k], F[k - 1], dedup)
    IN  F[n]

\* for (const wdoc of wrappers.reverse()) doc = mergeWrapperIntoInline(wdoc, doc)
mergeAll(wrappers, doc, dedup) ==
    LET n == Len(wrappers)
        F[k \in 0..n] ==
            IF k = 0 THEN doc
            ELSE mergeWrapperIntoInline(wrappers[n - k + 1], F[k - 1], dedup)
    IN  F[n]

\* every Tracking entry a document declares, over all its creatives
declaredTracking(doc) ==
    LET F[k \in 0..Len(doc.Creatives)] ==
            IF k = 0 THEN <<>> ELSE F[k - 1] \o doc.Creatives[k].Tracking
    IN  F[Len(doc.Creatives)]

Range(s) ==
    {s[k] : k \in 1..Len(s)}

impressionUrls(doc) ==
    {doc.Impression[k].text : k \in 1..Len(doc.Impression)}

(***************************************************************************)
(* One merge: a wrapper and an inline document drawn from bounded lists.   *)
(***************************************************************************)
MaxTrk == 2

MaxImp == 1

TrkA == Tracking("start", "https://t.example/1")

TrkB == Tracking("complete", "https://t.example/1")

TrkC == Tracking("start", "https://t.example/2")

TrkEntries == {TrkA, TrkB, TrkC}

\* lists without repeated entries
TrkLists ==
    {q \in UNION {[1..n -> TrkEntries] : n \in 0..MaxTrk} :
        \A j, k \in 1..Len(q) : j # k => q[j] # q[k]}

ImpEntries == {ImpString("https://i.example/x"), ImpObject("https://i.example/y", "y1")}

ImpLists ==
    UNION {[1..n -> ImpEntries] : n \in 0..MaxImp}

WrapperCreatives ==
    {<<Creative(TRUE, t)>> : t \in TrkLists}
    \cup {<<Creative(FALSE, <<>>), Creative(TRUE, t)>> : t \in TrkLists}

InlineCreatives ==
    {<<>>} \cup WrapperCreatives

MergeWrappers ==
    {Vast("Wrapper", "https://cdn.example/rtb", imp, cre) :
        imp \in ImpLists, cre \in WrapperCreatives}

MergeInlines ==
    {Vast("InLine", None, imp, cre) : imp \in ImpLists, cre \in InlineCreatives}

MergeInit ==
    /\ ClassifierIdle
    /\ BidsIdle
    /\ HandlerIdle
    /\ cache = {}
    /\ now = 0
    /\ call = <<>>
    /\ fetches = <<>>
    /\ impDedup \in BOOLEAN
    /\ mW \in MergeWrappers
    /\ mI \in MergeInlines
    /\ mOut = NoDoc
    /\ mPc = "input"

Merge ==
    /\ mPc = "input"
    /\ mOut' = mergeWrapperIntoInline(mW, mI, impDedup)
    /\ mPc' = "merged"
    /\ UNCHANGED <<ipVars, bVars, hVars, rVars, mW, mI>>

MergeNext ==
    Merge

SpecMerge ==
    MergeInit /\ [][MergeNext]_vars

\* C10: one merge yields a TrackingEvent list equal to the inline's entries in
\* their original order followed by the wrapper's entries whose key (event
\* type and URL) does not already occur, with IMP_DEDUP on or off.
C10_TrackingInlineThenNewWrapper ==
    mPc = "merged" =>
        LET it == declaredTracking(mI)
            wt == declaredTracking(mW)
            keys == {trackingKey(it[k]) : k \in 1..Len(it)}
        IN  declaredTracking(mOut) =
                it \o SelectSeq(wt, LAMBDA t : trackingKey(t) \notin keys)

(***************************************************************************)
(* lib/resolver.mjs: the TTL cache, fetchWithTimeout and the unwrap loop.  *)
(* MAX_DEPTH and CACHE_TTL_MS are read from the environment; the values    *)
(* here are the ones the resolver is run with.                             *)
(***************************************************************************)
MAX_DEPTH == 3

CACHE_TTL_MS == 2

cacheKey(vastUrl) ==
    <<"rv:", vastUrl>>

\* a read that ignores the expiry timestamp
cacheGetNoExpiry(k) ==
    LET es == {e \in cache : e.key = k}
    IN  IF es = {} THEN NoXml
        ELSE LET v == CHOOSE e \in es : TRUE
             IN  v.val

\* cacheGet(k): the value returned ...
cacheGet(k) ==
    LET es == {e \in cache : e.key = k}
    IN  IF es = {} THEN NoXml
        ELSE LET v == CHOOSE e \in es : TRUE
             IN  IF now > v.exp THEN NoXml ELSE v.val

\* a read that always evicts the entry it looked up
cacheAfterGetEvicts(k) ==
    {e \in cache : e.key # k}

\* ... and the map it leaves: an expired entry is deleted
cacheAfterGet(k) ==
    {e \in cache : ~(e.key = k /\ now > e.exp)}

\* a cache.set whose entries expire at once
cacheSetNoTtl(k, val) ==
    {e \in cache : e.key # k}
    \cup {[key |-> k, val |-> val, exp |-> now]}

\* cacheSet(k, val): the map after cache.set
cacheSet(k, val) ==
    {e \in cache : e.key # k}
    \cup {[key |-> k, val |-> val, exp |-> now + CACHE_TTL_MS]}

\* fetch(url, { ...opts, signal }): no redirect option, so the default "follow"
fetchCall(p, url) ==
    [by |-> p, url |-> url, redirect |-> "follow"]

\* the stats object of mergeWrapperImpressionsIntoInlineXml, before it is filled
NoStats ==
    [rvHasWrapper |-> FALSE, rvHasInline |-> FALSE, rvImpCount |-> 0,
     targetImpBefore |-> 0, targetImpAfter |-> 0]

InitialCall ==
    [pc |-> "idle", vastUrl |-> None, depth |-> 0, doc |-> NoDoc,
     wrappers |-> <<>>, served |-> <<>>, timer |-> "unarmed", result |-> NoResult,
     startedAt |-> -1, endedAt |-> -1, stats |-> NoStats]

\* a loop that admits one more hop
loopGuardInclusive(depth) ==
    depth <= MAX_DEPTH

\* while (depth < MAX_DEPTH)
loopGuard(depth) ==
    depth < MAX_DEPTH

\* a hop counted twice
nextDepthTwice(depth) ==
    depth + 2

\* depth++
nextDepth(depth) ==
    depth + 1

Throw(c) ==
    [c EXCEPT !.pc = "failed", !.endedAt = now,
              !.result = [status |-> "error", xml |-> NoXml, depth |-> 0, cached |-> None]]

\* entry of resolveToInlineWithMeta up to its first await
ResolveStart(p, urls) ==
    /\ call[p].pc = "idle"
    /\ \E vastUrl \in urls :
        LET cached == cacheGet(cacheKey(vastUrl))
        IN  /\ cache' = cacheAfterGet(cacheKey(vastUrl))
            /\ IF cached.present
               THEN /\ call' = [call EXCEPT ![p] =
                            [@ EXCEPT !.pc = "done", !.vastUrl = vastUrl,
                                      !.startedAt = now, !.endedAt = now,
                                      !.result = [status |-> "ok", xml |-> cached,
                                                  depth |-> 0, cached |-> "hit"]]]
                    /\ UNCHANGED fetches
               ELSE /\ call' = [call EXCEPT ![p] =
                            [@ EXCEPT !.pc = "fetching", !.vastUrl = vastUrl,
                                      !.startedAt = now, !.timer = "armed"]]
                    /\ fetches' = Append(fetches, fetchCall(p, vastUrl))
    /\ UNCHANGED <<ipVars, bVars, hVars, mVars, now, impDedup>>

\* the fetch promise resolves with the response headers; .finally clears the timer
FetchResponds(p) ==
    /\ call[p].pc = "fetching"
    /\ call[p].timer = "armed"
    /\ call' = [call EXCEPT ![p] = [@ EXCEPT !.pc = "reading", !.timer = "cleared"]]
    /\ UNCHANGED <<ipVars, bVars, hVars, mVars, cache, now, impDedup, fetches>>

\* the fetch promise rejects with a network error
FetchFails(p) ==
    /\ call[p].pc = "fetching"
    /\ call[p].timer = "armed"
    /\ call' = [call EXCEPT ![p] = Throw([@ EXCEPT !.timer = "cleared"])]
    /\ UNCHANGED <<ipVars, bVars, hVars, mVars, cache, now, impDedup, fetches>>

\* the timer of fetchWithTimeout fires: controller.abort() rejects the fetch
TimerFires(p) ==
    /\ call[p].pc = "fetching"
    /\ call[p].timer = "armed"
    /\ call' = [call EXCEPT ![p] = Throw([@ EXCEPT !.timer = "fired"])]
    /\ UNCHANGED <<ipVars, bVars, hVars, mVars, cache, now, impDedup, fetches>>

\* resp.text() rejects
TextFails(p) ==
    /\ call[p].pc = "reading"
    /\ call' = [call EXCEPT ![p] = Throw(@)]
    /\ UNCHANGED <<ipVars, bVars, hVars, mVars, cache, now, impDedup, fetches>>

\* resp.text() resolves and the document is parsed; the loop runs up to the
\* next await, or the call finishes: merge, build, cacheSet, return
TextArrives(p, docs) ==
    /\ call[p].pc = "reading"
    /\ \E d \in docs :
        LET c == [call[p] EXCEPT !.doc = d, !.served = Append(@, d)]
            next == getVastAdTagUri(d)
        IN  IF loopGuard(c.depth) /\ ~getInline(d)
            THEN IF next = None
                 THEN /\ call' = [call EXCEPT ![p] = Throw(c)]
                      /\ UNCHANGED <<cache, fetches>>
                 ELSE /\ call' = [call EXCEPT ![p] =
                              [c EXCEPT !.wrappers = Append(@, d),
                                        !.depth = nextDepth(@),
                                        !.pc = "fetching",
                                        !.timer = "armed"]]
                      /\ fetches' = Append(fetches, fetchCall(p, next))
                      /\ UNCHANGED cache
            ELSE LET merged == mergeAll(c.wrappers, d, impDedup)
                     xml == build(merged)
                 IN  /\ cache' = cacheSet(cacheKey(c.vastUrl), xml)
                     /\ call' = [call EXCEPT ![p] =
                              [c EXCEPT !.doc = merged,
                                        !.pc = "done", !.endedAt = now,
                                        !.result = [status |-> "ok", xml |-> xml,
                                                    depth |-> c.depth, cached |-> "miss"]]]
                     /\ UNCHANGED fetches
    /\ UNCHANGED <<ipVars, bVars, hVars, mVars, now, impDedup>>

(***************************************************************************)
(* Resolver specification: one call on an empty cache; the remote servers  *)
(* answer every fetch with any document of ChainDocs, so every chain up to *)
(* the depth limit, cyclic and endless ones included, is a behaviour.      *)
(***************************************************************************)
ResolverUrls == {"https://bid.example/rtb", "http://bid.example/rtb"}

ImpA == ImpString("https://i.example/a")

ImpB == ImpObject("https://i.example/b", "b1")

ImpC == ImpString("https://i.example/c")

WrapperContents ==
    { [imp |-> <<ImpA>>, cre |-> <<Creative(TRUE, <<TrkA>>)>>],
      [imp |-> <<ImpB>>, cre |-> <<Creative(TRUE, <<TrkB>>)>>] }

ChainWrappers ==
    {Vast("Wrapper", tag, c.imp, c.cre) : tag \in ResolverUrls, c \in WrapperContents}
    \cup {Vast("Wrapper", tag, <<ImpA>>, <<Creative(TRUE, <<TrkA>>)>>) : tag \in {None, ""}}

ChainInlines ==
    {Vast("InLine", None, <<ImpC>>, cre) :
        cre \in { <<Creative(TRUE, <<TrkC>>)>>,
                  <<Creative(FALSE, <<>>), Creative(TRUE, <<TrkC>>)>>,
                  <<>> }}

ChainDocs ==
    ChainWrappers \cup ChainInlines \cup {NoDoc}

ResolveInit ==
    /\ ClassifierIdle
    /\ BidsIdle
    /\ HandlerIdle
    /\ MergeIdle
    /\ cache = {}
    /\ now = 0
    /\ impDedup \in BOOLEAN
    /\ call = [p \in {1} |-> InitialCall]
    /\ fetches = <<>>

ResolveNext ==
    \/ \E p \in DOMAIN call : ResolveStart(p, ResolverUrls)
    \/ \E p \in DOMAIN call : FetchResponds(p)
    \/ \E p \in DOMAIN call : FetchFails(p)
    \/ \E p \in DOMAIN call : TimerFires(p)
    \/ \E p \in DOMAIN call : TextArrives(p, ChainDocs)
    \/ \E p \in DOMAIN call : TextFails(p)

SpecResolve ==
    ResolveInit /\ [][ResolveNext]_vars

\* every pending fetch, body read and call start eventually happens
SpecResolveFair ==
    SpecResolve /\ WF_vars(ResolveNext)

Terminated(p) ==
    call[p].pc \in {"done", "failed"}

fetchCount(p) ==
    Cardinality({k \in 1..Len(fetches) : fetches[k].by = p})

\* C5: every fetch made while resolving a chain is to a URL that passes the
\* endpoint validation (here its https and no-credentials part) and is made
\* without automatic redirect following.
C5_FetchesValidatedAndManual ==
    \A k \in 1..Len(fetches) :
        /\ isHttpsUrlStrict(fetches[k].url) # NoUrl
        /\ fetches[k].redirect = "manual"

\* C6: a call that has followed MAX_DEPTH hops and whose last fetched document
\* still holds no InLine ends in an error and returns no result.
C6_DepthExhaustedFails ==
    \A p \in DOMAIN call :
        LET c == call[p]
        IN  (/\ Terminated(p)
             /\ Len(c.served) = MAX_DEPTH + 1
             /\ \A k \in 1..Len(c.served) : ~getInline(c.served[k]))
            => (c.pc = "failed" /\ c.result.status = "error")

\* C27: whenever the document a call has just received holds no InLine and no
\* (or an empty) VASTAdTagURI, the call fails with an error, makes no further
\* fetch and leaves the cache as it was.
C27_MissingTagFails ==
    \A p \in DOMAIN call :
        LET c == call[p]
            n == Len(c.served)
        IN  (/\ n >= 1
             /\ ~getInline(c.served[n])
             /\ getVastAdTagUri(c.served[n]) = None)
            => (/\ c.pc = "failed"
                /\ c.result.status = "error"
                /\ fetchCount(p) = n
                /\ cache = {})

\* the documents served to a call are k wrappers with a VASTAdTagURI, then an InLine
WrappersThenInline(served) ==
    /\ Len(served) >= 1
    /\ getInline(served[Len(served)])
    /\ \A k \in 1..(Len(served) - 1) :
        getWrapper(served[k]) /\ getVastAdTagUri(served[k]) # None

\* C7: on an empty cache, a chain of k wrappers followed by an InLine with
\* 0 <= k <= MAX_DEPTH resolves successfully with depth = k and cached = "miss".
C7_DepthIsWrapperCount ==
    \A p \in DOMAIN call :
        LET c == call[p]
        IN  (/\ Terminated(p)
             /\ WrappersThenInline(c.served)
             /\ Len(c.served) - 1 <= MAX_DEPTH)
            => (/\ c.pc = "done"
                /\ c.result.status = "ok"
                /\ c.result.depth = Len(c.served) - 1
                /\ c.result.cached = "miss")

\* a chain whose InLine is reached exactly on hop MAX_DEPTH has resolved
C7_Witness ==
    \E p \in DOMAIN call :
        /\ call[p].pc = "done"
        /\ WrappersThenInline(call[p].served)
        /\ Len(call[p].served) = MAX_DEPTH + 1
        /\ call[p].result.depth = MAX_DEPTH

\* C8: on any chain, cyclic and endless ones included, a call issues at most
\* MAX_DEPTH + 1 fetches and terminates, every fetch completing or failing.
C8_BoundedFetchesAndTermination ==
    /\ [](\A p \in DOMAIN call : fetchCount(p) <= MAX_DEPTH + 1)
    /\ <>(\A p \in DOMAIN call : Terminated(p))

\* a cyclic chain (a URL fetched twice) has ended after MAX_DEPTH + 1 fetches
C8_Witness ==
    \E p \in DOMAIN call :
        /\ Terminated(p)
        /\ fetchCount(p) = MAX_DEPTH + 1
        /\ \E j, k \in 1..Len(fetches) : j < k /\ fetches[j].url = fetches[k].url

\* each level declares impressions and tracking events, none shared between levels
DistinctLevels(served) ==
    /\ \A k \in 1..Len(served) :
        impressionUrls(served[k]) # {} /\ declaredTracking(served[k]) # <<>>
    /\ \A j, k \in 1..Len(served) : j # k =>
        /\ impressionUrls(served[j]) \cap impressionUrls(served[k]) = {}
        /\ Range(declaredTracking(served[j])) \cap Range(declaredTracking(served[k])) = {}

\* the Impression URLs of a document, in document order
impressionList(doc) ==
    [k \in 1..Len(doc.Impression) |-> doc.Impression[k].text]

\* the Impression URLs of the last document served, then those of the one
\* before it, and so on back to the first
innermostFirst(served) ==
    LET n == Len(served)
        F[k \in 0..n] ==
            IF k = 0 THEN <<>>
            ELSE F[k - 1] \o impressionList(served[n - k + 1])
    IN  F[n]

C29_WrapperTrackingSurvives ==
    \A p \in DOMAIN call :
        LET c == call[p]
            s == c.served
        IN  (c.pc = "done" /\ c.result.cached = "miss" /\ WrappersThenInline(s)) =>
                \A k \in 1..(Len(s) - 1) :
                    Range(declaredTracking(s[k]))
                        \subseteq Range(declaredTracking(c.result.xml.xml))

\* C9: for a chain Wrapper1 -> Wrapper2 -> InLine whose three levels declare
\* distinct Impression and TrackingEvent entries, the call returns depth 2 and
\* an InLine document holding every Impression and every TrackingEvent entry of
\* the three levels.
C9_ThreeLevelUnion ==
    \A p \in DOMAIN call :
        LET c == call[p]
            s == c.served
            out == c.result.xml.xml
        IN  (/\ Terminated(p)
             /\ Len(s) = 3
             /\ WrappersThenInline(s)
             /\ DistinctLevels(s))
            => (/\ c.pc = "done"
                /\ c.result.depth = 2
                /\ getInline(out)
                /\ \A k \in 1..3 :
                    /\ impressionUrls(s[k]) \subseteq impressionUrls(out)
                    /\ Range(declaredTracking(s[k])) \subseteq Range(declaredTracking(out)))

(***************************************************************************)
(* One merge, Impression lists: the wrapper's and the inline's Impression  *)
(* entries range over strings, objects with "#text" and empty elements.    *)
(***************************************************************************)
MaxImpList == 2

ImpX == ImpString("https://i.example/x")

ImpY == ImpObject("https://i.example/y", "y1")

ImpEmpty == ImpString("")

ImpListEntries == {ImpX, ImpY, ImpEmpty}

ImpressionLists ==
    UNION {[1..n -> ImpListEntries] : n \in 0..MaxImpList}

MergeImpInit ==
    /\ ClassifierIdle
    /\ BidsIdle
    /\ HandlerIdle
    /\ cache = {}
    /\ now = 0
    /\ call = <<>>
    /\ fetches = <<>>
    /\ impDedup \in BOOLEAN
    /\ mW \in {Vast("Wrapper", "https://cdn.example/rtb", imp, <<>>) : imp \in ImpressionLists}
    /\ mI \in {Vast("InLine", None, imp, <<>>) : imp \in ImpressionLists}
    /\ mOut = NoDoc
    /\ mPc = "input"

SpecMergeImp ==
    MergeImpInit /\ [][MergeNext]_vars

\* the "#text" of the entries of an Impression list, in order
impressionTexts(imps) ==
    [k \in 1..Len(imps) |-> imps[k].text]

\* the first occurrence of each non-empty text of a list, in order
firstOccurrences(texts) ==
    SelectAt(texts, {k \in 1..Len(texts) :
                        /\ texts[k] # ""
                        /\ \A j \in 1..(k - 1) : texts[j] # texts[k]})

\* C11: with IMP_DEDUP off the merged Impression list is the inline's entries
\* followed by all the wrapper's entries, duplicates retained; with IMP_DEDUP
\* on its URLs are the first occurrence of each URL in inline-then-wrapper
\* order.
C11_ImpressionsKeepAllOrDedup ==
    mPc = "merged" =>
        LET all == impressionTexts(mI.Impression) \o impressionTexts(mW.Impression)
            out == impressionTexts(mOut.Impression)
        IN  IF impDedup
            THEN SelectSeq(out, LAMBDA u : u # "") = firstOccurrences(all)
            ELSE out = all

\* inline [x] merged with wrapper [x, y] under IMP_DEDUP gives [x, y]
C11_Witness ==
    /\ mPc = "merged"
    /\ impDedup
    /\ mI.Impression = <<ImpX>>
    /\ mW.Impression = <<ImpX, ImpY>>
    /\ impressionTexts(mOut.Impression) = <<ImpX.text, ImpY.text>>

(***************************************************************************)
(* One merge, the rest of the tracking surface: documents that differ in   *)
(* their ViewableImpression groups, or in their AdVerifications, Error and *)
(* Linear/VideoClicks/ClickTracking entries.                               *)
(***************************************************************************)
MaxView == 1

PixelEntries == {"https://p.example/1", "https://p.example/2"}

PixelLists ==
    UNION {[1..n -> PixelEntries] : n \in 0..MaxView}

\* a document with the three ViewableImpression groups set
WithViewable(doc, viewable, notViewable, undetermined) ==
    [doc EXCEPT !.Viewable = viewable,
                !.NotViewable = notViewable,
                !.ViewUndetermined = undetermined]

\* a document with AdVerifications, Error and one Linear creative's ClickTracking set
WithAux(doc, verification, error, clicks) ==
    [doc EXCEPT !.Verification = verification,
                !.Error = error,
                !.Creatives = <<[Linear |-> TRUE, Tracking |-> <<>>, ClickTracking |-> clicks]>>]

SurfaceDocs(base) ==
    {WithViewable(base, v, n, u) : v \in PixelLists, n \in PixelLists, u \in PixelLists}
    \cup {WithAux(base, v, e, c) : v \in PixelLists, e \in PixelLists, c \in PixelLists}

MergeSurfaceInit ==
    /\ ClassifierIdle
    /\ BidsIdle
    /\ HandlerIdle
    /\ cache = {}
    /\ now = 0
    /\ call = <<>>
    /\ fetches = <<>>
    /\ impDedup \in BOOLEAN
    /\ mW \in SurfaceDocs(Vast("Wrapper", "https://cdn.example/rtb", <<>>, <<>>))
    /\ mI \in SurfaceDocs(Vast("InLine", None, <<>>, <<>>))
    /\ mOut = NoDoc
    /\ mPc = "input"

SpecMergeSurface ==
    MergeSurfaceInit /\ [][MergeNext]_vars

\* every ClickTracking entry a document declares, over all its creatives
declaredClicks(doc) ==
    LET F[k \in 0..Len(doc.Creatives)] ==
            IF k = 0 THEN <<>> ELSE F[k - 1] \o doc.Creatives[k].ClickTracking
    IN  F[Len(doc.Creatives)]

\* C12: every entry of every field of the tracking surface that is on the
\* inline document before mergeWrapperIntoInline is still on it after.
C12_InlineEntriesPreserved ==
    mPc = "merged" =>
        /\ Range(impressionTexts(mI.Impression)) \subseteq Range(impressionTexts(mOut.Impression))
        /\ Range(declaredTracking(mI)) \subseteq Range(declaredTracking(mOut))
        /\ Range(mI.Verification) \subseteq Range(mOut.Verification)
        /\ Range(mI.Viewable) \subseteq Range(mOut.Viewable)
        /\ Range(mI.NotViewable) \subseteq Range(mOut.NotViewable)
        /\ Range(mI.ViewUndetermined) \subseteq Range(mOut.ViewUndetermined)
        /\ Range(declaredClicks(mI)) \subseteq Range(declaredClicks(mOut))
        /\ Range(mI.Error) \subseteq Range(mOut.Error)

\* a group after the merge as the ordering rule gives it: the inline's entries,
\* then the wrapper's entries not already present
inlineThenNew(inlineList, wrapperList) ==
    inlineList \o SelectSeq(wrapperList, LAMBDA u : u \notin Range(inlineList))

\* C13: after a merge each ViewableImpression group (Viewable, NotViewable,
\* ViewUndetermined) equals the inline's entries followed by the wrapper's
\* entries not already present by URL.
C13_ViewableGroupsMerged ==
    mPc = "merged" =>
        /\ mOut.Viewable = inlineThenNew(mI.Viewable, mW.Viewable)
        /\ mOut.NotViewable = inlineThenNew(mI.NotViewable, mW.NotViewable)
        /\ mOut.ViewUndetermined = inlineThenNew(mI.ViewUndetermined, mW.ViewUndetermined)

\* a list after the merge as the wrapper-first rule gives it: the wrapper's
\* entries, then the inline's entries not already present
wrapperThenNew(wrapperList, inlineList) ==
    wrapperList \o SelectSeq(inlineList, LAMBDA u : u \notin Range(wrapperList))

\* C14: after a merge the inline's Linear/VideoClicks/ClickTracking list is the
\* wrapper's ClickTracking entries followed by the inline's entries not already
\* present, so every ClickTracking URL of the wrapper is in the merged document.
C14_ClickTrackingWrapperFirst ==
    mPc = "merged" =>
        declaredClicks(mOut) = wrapperThenNew(declaredClicks(mW), declaredClicks(mI))

\* C15: after a merge the inline's Error list is the wrapper's Error entries
\* followed by the inline's Error entries not already present, so every Error
\* pixel of the wrapper is in the merged document.
C15_ErrorWrapperFirst ==
    mPc = "merged" =>
        mOut.Error = wrapperThenNew(mW.Error, mI.Error)

(***************************************************************************)
(* Cache specification: two calls of resolveToInlineWithMeta made one      *)
(* after the other on the module's cache, which starts empty, while the    *)
(* clock read by Date.now() advances between any two steps.                *)
(***************************************************************************)
MaxTime == 3

CacheUrls == ResolverUrls

CacheWrapper ==
    Vast("Wrapper", "https://bid.example/rtb", <<ImpA>>, <<Creative(TRUE, <<TrkA>>)>>)

CacheInlines ==
    {Vast("InLine", None, <<ImpC>>, <<Creative(TRUE, <<TrkC>>)>>),
     Vast("InLine", None, <<>>, <<>>)}

CacheDocs == {CacheWrapper} \cup CacheInlines

CacheInit ==
    /\ ClassifierIdle
    /\ BidsIdle
    /\ HandlerIdle
    /\ MergeIdle
    /\ cache = {}
    /\ now = 0
    /\ impDedup = FALSE
    /\ call = [p \in {1, 2} |-> InitialCall]
    /\ fetches = <<>>

\* Date.now() returns a later time
Tick ==
    /\ now < MaxTime
    /\ now' = now + 1
    /\ UNCHANGED <<ipVars, bVars, hVars, mVars, cache, impDedup, call, fetches>>

\* the caller awaits one call before making the next
EarlierCallsReturned(p) ==
    \A q \in DOMAIN call : q < p => call[q].pc \in {"done", "failed"}

CacheNext ==
    \/ \E p \in DOMAIN call : EarlierCallsReturned(p) /\ ResolveStart(p, CacheUrls)
    \/ \E p \in DOMAIN call : FetchResponds(p)
    \/ \E p \in DOMAIN call : FetchFails(p)
    \/ \E p \in DOMAIN call : TimerFires(p)
    \/ \E p \in DOMAIN call : TextFails(p)
    \/ \E p \in DOMAIN call : TextArrives(p, CacheDocs)
    \/ Tick

SpecCache == CacheInit /\ [][CacheNext]_vars

Started(p) == call[p].pc # "idle"

ReturnedOk(p) == call[p].pc = "done" /\ call[p].result.status = "ok"

\* q was called for the URL of p after p had returned a resolved document
SecondOfSameUrl(p, q) ==
    /\ p < q
    /\ ReturnedOk(p)
    /\ Started(q)
    /\ call[q].vastUrl = call[p].vastUrl

\* C16: when a resolution of a URL has completed and a second resolution of
\* the same URL starts before CACHE_TTL_MS has elapsed since, the second one
\* issues no fetch and is a cache hit; one that starts after CACHE_TTL_MS
\* has elapsed issues a fetch again and, if it returns, returns cached "miss"
C16_SecondWithinTtlHitsLaterMisses ==
    \A p, q \in DOMAIN call :
        SecondOfSameUrl(p, q) =>
            /\ call[q].startedAt < call[p].endedAt + CACHE_TTL_MS =>
                    /\ fetchCount(q) = 0
                    /\ ReturnedOk(q)
                    /\ call[q].result.cached = "hit"
            /\ call[q].startedAt > call[p].endedAt + CACHE_TTL_MS =>
                    /\ fetchCount(q) >= 1
                    /\ fetches[CHOOSE k \in DOMAIN fetches : fetches[k].by = q].url
                           = call[q].vastUrl
                    /\ ReturnedOk(q) => call[q].result.cached = "miss"

\* a second call made after the entry expired has fetched again and returned
C16_Witness ==
    \E p, q \in DOMAIN call :
        /\ SecondOfSameUrl(p, q)
        /\ call[q].startedAt > call[p].endedAt + CACHE_TTL_MS
        /\ ReturnedOk(q)
        /\ call[q].result.cached = "miss"
        /\ fetchCount(q) >= 1

\* the entries of the cache for the key of vastUrl that have not expired
Unexpired(vastUrl) ==
    {e \in cache : e.key = cacheKey(vastUrl) /\ ~(now > e.exp)}

\* C17: a call made while the cache holds an unexpired entry for its key
\* returns exactly the stored XML with cached "hit" and depth 0, issues no
\* fetch and leaves the cache as it was
C17_UnexpiredEntryIsReturned ==
    [][\A p \in DOMAIN call :
          (call[p].pc = "idle" /\ call'[p].pc # "idle"
              /\ Unexpired(call'[p].vastUrl) # {}) =>
             /\ call'[p].pc = "done"
             /\ \E e \in Unexpired(call'[p].vastUrl) :
                   call'[p].result =
                       [status |-> "ok", xml |-> e.val, depth |-> 0, cached |-> "hit"]
             /\ fetches' = fetches
             /\ cache' = cache]_vars

\* a call has returned a stored document without fetching
C17_Witness ==
    \E q \in DOMAIN call :
        /\ ReturnedOk(q)
        /\ call[q].result.cached = "hit"
        /\ call[q].result.depth = 0
        /\ fetchCount(q) = 0
        /\ \E e \in cache : e.key = cacheKey(call[q].vastUrl) /\ e.val = call[q].result.xml

\* C33: the cacheGet a call makes on entry never returns the value of an
\* entry whose expiry timestamp is earlier than the current time: the read
\* is a miss and the entry is removed; an entry read at or before its expiry
\* timestamp is returned and stays in the map, as does every other entry.
C33_ExpiredNeverReturnedOnlyExpiredEvicted ==
    [][\A p \in DOMAIN call :
          (call[p].pc = "idle" /\ call'[p].pc # "idle") =>
             \A e \in cache :
                /\ (e.key = cacheKey(call'[p].vastUrl) /\ e.exp < now) =>
                      /\ call'[p].result.cached # "hit"
                      /\ call'[p].pc = "fetching"
                      /\ e \notin cache'
                /\ (e.key = cacheKey(call'[p].vastUrl) /\ now <= e.exp) =>
                      /\ call'[p].result.cached = "hit"
                      /\ call'[p].result.xml = e.val
                      /\ e \in cache'
                /\ e.key # cacheKey(call'[p].vastUrl) => e \in cache']_vars

\* a second call for a URL, made after the entry of the first had expired,
\* found no value, is fetching, and the expired entry is gone
C33_Witness ==
    \E p, q \in DOMAIN call :
        /\ SecondOfSameUrl(p, q)
        /\ call[p].result.cached = "miss"
        /\ call[q].startedAt > call[p].endedAt + CACHE_TTL_MS
        /\ call[q].pc = "fetching"
        /\ \A e \in cache : e.key # cacheKey(call[q].vastUrl)

(***************************************************************************)
(* mergeWrapperImpressionsIntoInlineXml: the lightweight path.  The call   *)
(* parses the inline markup, fetches the derived endpoint and merges the   *)
(* Impression entries of the document it returns.                          *)
(***************************************************************************)

\* a merge of the whole tracking surface in place of the targeted one
lightweightMergeFull(wrapperDoc, inlineDoc, dedup) ==
    IF (getWrapper(wrapperDoc) \/ getInline(wrapperDoc)) /\ getInline(inlineDoc)
    THEN mergeWrapperIntoInline(wrapperDoc, inlineDoc, dedup)
    ELSE inlineDoc

\* if (sourceNode && targetInline) mergeImpressions(sourceNode, targetInline)
lightweightMerge(wrapperDoc, inlineDoc, dedup) ==
    IF (getWrapper(wrapperDoc) \/ getInline(wrapperDoc)) /\ getInline(inlineDoc)
    THEN [inlineDoc EXCEPT !.Impression = mergeImpressions(wrapperDoc, inlineDoc, dedup)]
    ELSE inlineDoc

\* entry of mergeWrapperImpressionsIntoInlineXml up to its first await
MergeImpsStart(p, inlineAdmXml, wrapperUrl) ==
    /\ call[p].pc = "idle"
    /\ call' = [call EXCEPT ![p] =
           [@ EXCEPT !.pc = "fetching", !.vastUrl = wrapperUrl,
                     !.doc = inlineAdmXml.xml,
                     !.startedAt = now, !.timer = "armed"]]
    /\ fetches' = Append(fetches, fetchCall(p, wrapperUrl))
    /\ UNCHANGED <<ipVars, bVars, hVars, mVars, cache, now, impDedup>>

\* the fetch resolves with a status outside 200..299: if (!resp.ok) throw
RespondsNotOk(p) ==
    /\ call[p].pc = "fetching"
    /\ call[p].timer = "armed"
    /\ call' = [call EXCEPT ![p] = Throw([@ EXCEPT !.timer = "cleared"])]
    /\ UNCHANGED <<ipVars, bVars, hVars, mVars, cache, now, impDedup, fetches>>

\* resp.text() resolves: parse, pick the source node, merge, build, return
MergeImpsTextArrives(p, docs) ==
    /\ call[p].pc = "reading"
    /\ \E wrapperDoc \in docs :
        LET inlineDoc == call[p].doc
            hasSource == getWrapper(wrapperDoc) \/ getInline(wrapperDoc)
            mergedDoc == lightweightMerge(wrapperDoc, inlineDoc, impDedup)
            stats ==
                [rvHasWrapper |-> getWrapper(wrapperDoc),
                 rvHasInline |-> getInline(wrapperDoc),
                 rvImpCount |-> IF hasSource
                                THEN Len(normalizeImpressions(wrapperDoc.Impression))
                                ELSE 0,
                 targetImpBefore |-> IF getInline(inlineDoc)
                                     THEN Len(normalizeImpressions(inlineDoc.Impression))
                                     ELSE 0,
                 targetImpAfter |-> IF getInline(mergedDoc)
                                    THEN Len(normalizeImpressions(mergedDoc.Impression))
                                    ELSE 0]
        IN  call' = [call EXCEPT ![p] =
                [@ EXCEPT !.pc = "done", !.endedAt = now,
                          !.served = Append(@, wrapperDoc),
                          !.stats = stats,
                          !.result = [status |-> "ok", xml |-> build(mergedDoc),
                                      depth |-> 0, cached |-> None]]]
    /\ UNCHANGED <<ipVars, bVars, hVars, mVars, cache, now, impDedup, fetches>>

(***************************************************************************)
(* Lightweight-path specification: one call on any inline markup of        *)
(* RvTargets; the derived endpoint answers with any document of            *)
(* RvResponses, with an error status, or not at all.                       *)
(***************************************************************************)
RvUrls == {"https://use1.example/rv"}

RvTargets ==
    {build(d) : d \in SurfaceDocs(Vast("InLine", None, <<ImpC>>, <<>>))
                       \cup ChainInlines \cup {CacheWrapper, NoDoc}}

RvWrapper == Vast("Wrapper", "https://bid.example/rtb", <<ImpA, ImpB>>, <<Creative(TRUE, <<TrkA>>)>>)

RvResponses ==
    ChainWrappers \cup ChainInlines \cup {NoDoc}
    \cup {WithViewable(RvWrapper, <<"https://p.example/1">>, <<"https://p.example/1">>,
                        <<"https://p.example/2">>),
          WithAux(RvWrapper, <<"https://p.example/1">>, <<"https://p.example/2">>,
                  <<"https://p.example/1">>)}

LightInit ==
    /\ ClassifierIdle
    /\ BidsIdle
    /\ HandlerIdle
    /\ MergeIdle
    /\ cache = {}
    /\ now = 0
    /\ impDedup \in BOOLEAN
    /\ call = [p \in {1} |-> InitialCall]
    /\ fetches = <<>>

LightNext ==
    \/ \E p \in DOMAIN call, x \in RvTargets, u \in RvUrls : MergeImpsStart(p, x, u)
    \/ \E p \in DOMAIN call : FetchResponds(p)
    \/ \E p \in DOMAIN call : RespondsNotOk(p)
    \/ \E p \in DOMAIN call : FetchFails(p)
    \/ \E p \in DOMAIN call : TimerFires(p)
    \/ \E p \in DOMAIN call : TextFails(p)
    \/ \E p \in DOMAIN call : MergeImpsTextArrives(p, RvResponses)

SpecLight == LightInit /\ [][LightNext]_vars

\* C19: the markup returned by mergeWrapperImpressionsIntoInlineXml differs
\* from the inline markup it was given in the Impression list only: the
\* creatives with their TrackingEvents and ClickTracking, the AdVerifications,
\* the three ViewableImpression groups and the Error entries are the same,
\* whatever document the derived endpoint returned
C19_OnlyImpressionsChange ==
    \A p \in DOMAIN call :
        call[p].pc = "done" =>
            LET before == call[p].doc
                after == call[p].result.xml.xml
            IN  /\ after.Creatives = before.Creatives
                /\ after.Verification = before.Verification
                /\ after.Viewable = before.Viewable
                /\ after.NotViewable = before.NotViewable
                /\ after.ViewUndetermined = before.ViewUndetermined
                /\ after.Error = before.Error
                /\ after.ad = before.ad
                /\ after.tag = before.tag

\* a call has merged the Impressions of a wrapper that also declares
\* verifications, errors and click trackers into an inline
C19_Witness ==
    \E p \in DOMAIN call :
        /\ call[p].pc = "done"
        /\ getInline(call[p].doc)
        /\ call[p].served[1].Error # <<>>
        /\ call[p].served[1].Verification # <<>>
        /\ declaredClicks(call[p].served[1]) # <<>>
        /\ call[p].result.xml.xml.Impression # call[p].doc.Impression

(***************************************************************************)
(* Body-reader specification: one readBodyLimited call with the limit      *)
(* MaxBodyBytes on any response of BodyResponses: a content-length header  *)
(* that is absent or declares any size up to two past the limit, and a     *)
(* body of up to MaxChunks chunks of any size up to one past the limit.    *)
(***************************************************************************)
BodyChunkSeqs ==
    UNION {[1..n -> 0..(MaxBodyBytes + 1)] : n \in 0..MaxChunks}

BodyResponses ==
    {[status |-> 200, loc |-> None, ct |-> "application/json", cl |-> cl, chunks |-> ch] :
        cl \in -1..(MaxBodyBytes + 2), ch \in BodyChunkSeqs}

BodyInit ==
    /\ ClassifierIdle
    /\ ResolverIdle
    /\ MergeIdle
    /\ seatbid = <<>>
    /\ loop = NoLoop
    /\ hpc = "idle"
    /\ hreq = NoReq
    /\ henv = NoEnv
    /\ candidate = None
    /\ current = NoUrl
    /\ redirects = 0
    /\ requests = <<>>
    /\ lastAddrs = {}
    /\ timer = "unarmed"
    /\ hstatus = 0
    /\ hresp \in BodyResponses
    /\ bodyResult = [NoBody EXCEPT !.pc = "called"]

\* the call runs to its return or its throw
ReadBody ==
    /\ bodyResult.pc = "called"
    /\ LET r == readBodyLimited(hresp, MaxBodyBytes)
       IN  bodyResult' = [pc |-> IF r.ok THEN "returned" ELSE "threw",
                          ok |-> r.ok, len |-> r.len, read |-> r.read,
                          cancelled |-> r.cancelled]
    /\ UNCHANGED <<ipVars, hVars, rVars, mVars, seatbid, loop>>

BodyNext ==
    ReadBody

SpecBody == BodyInit /\ [][BodyNext]_vars

\* the bytes of the first n chunks of the response
bytesUpTo(n) ==
    SumSeq(SubSeq(hresp.chunks, 1, n))

declaresTooMuch ==
    hresp.cl # -1 /\ hresp.cl > MaxBodyBytes

\* C20: readBodyLimited never returns more than maxBytes bytes; a declared
\* content-length above maxBytes makes it fail with no chunk read; otherwise
\* it fails, cancelling the stream, at the first chunk that takes the running
\* count above maxBytes, and it returns every body of at most maxBytes bytes,
\* one of exactly maxBytes included
C20_BodyNeverExceedsLimit ==
    bodyResult.pc \in {"returned", "threw"} =>
        /\ bodyResult.pc = "returned" => bodyResult.len <= MaxBodyBytes
        /\ declaresTooMuch =>
              bodyResult.pc = "threw" /\ bodyResult.read = 0
        /\ (~declaresTooMuch /\ \E n \in 1..Len(hresp.chunks) : bytesUpTo(n) > MaxBodyBytes) =>
              /\ bodyResult.pc = "threw"
              /\ bodyResult.cancelled
              /\ bytesUpTo(bodyResult.read) > MaxBodyBytes
              /\ \A j \in 1..(bodyResult.read - 1) : bytesUpTo(j) <= MaxBodyBytes
        /\ (~declaresTooMuch /\ bytesUpTo(Len(hresp.chunks)) <= MaxBodyBytes) =>
              /\ bodyResult.pc = "returned"
              /\ bodyResult.len = bytesUpTo(Len(hresp.chunks))
              /\ bodyResult.read = Len(hresp.chunks)

\* a body of exactly the limit, sent in more than one chunk, has been returned
C20_Witness ==
    /\ bodyResult.pc = "returned"
    /\ bodyResult.len = MaxBodyBytes
    /\ bodyResult.read >= 2

(***************************************************************************)
(* The bid loop of the /openrtb2 handler (api/openrtb2.mjs, v1.2): for     *)
(* every bid of every seatbid, STEP A unwraps a Wrapper adm through        *)
(* unwrapAdmIfWrapper (call 1) and STEP B merges the Impressions of the    *)
(* endpoint derived from nurl through mergeWrapperImpressionsIntoInlineXml *)
(* (call 2); then the response is sent.                                    *)
(***************************************************************************)

\* markup as the upstream wrote it: text that is not the builder's output
markup(doc) ==
    [present |-> TRUE, xml |-> doc, form |-> "upstream"]

\* b.ext.unwrap, absent
NoUnwrap ==
    [present |-> FALSE, depth |-> 0, cached |-> None, error |-> None,
     mergedWrapperImps |-> None, rvUrl |-> None, reason |-> None, stats |-> NoStats]

\* b.nurl, absent
NoNurl ==
    [present |-> FALSE, host |-> None, bidid |-> None, bidnwid |-> None]

\* a bid as the upstream sent it; admIn, unwrapCall and mergeCall record what
\* the upstream sent and how the two calls made for the bid ended
Bid(adm, nurl) ==
    [adm |-> adm, nurl |-> nurl, unwrap |-> NoUnwrap,
     admIn |-> adm, unwrapCall |-> None, mergeCall |-> None]

\* host.startsWith("ssb-") ? host.slice(4) : host
stripSsb(host) ==
    IF host = "ssb-use1.example" THEN "use1.example" ELSE host

deriveEquativRvUrlFromNurl(nurl) ==
    IF nurl.host = None THEN None
    ELSE IF nurl.bidid = None \/ nurl.bidid = "" THEN None
    ELSE IF nurl.bidnwid = None \/ nurl.bidnwid = "" THEN None
    ELSE "https://" \o stripSsb(nurl.host) \o "/rv?vastid=" \o nurl.bidid
             \o "&networkId=" \o nurl.bidnwid

\* b.adm.includes("<Wrapper") and b.adm.includes("<InLine")
includesWrapper(adm) == adm.present /\ adm.xml.ad = "Wrapper"

includesInLine(adm) == adm.present /\ adm.xml.ad = "InLine"

bidAt == seatbid[loop.sb][loop.b]

setBid(nb) == [seatbid EXCEPT ![loop.sb][loop.b] = nb]

Positions(sbq) ==
    UNION {{<<s, k>> : k \in 1..Len(sbq[s])} : s \in 1..Len(sbq)}

Later(p, q) ==
    q[1] > p[1] \/ (q[1] = p[1] /\ q[2] > p[2])

\* the next bid the two for-loops reach whose adm is a string, <<0, 0>> if none
nextBid(sb, b, sbq) ==
    LET rest == {q \in Positions(sbq) : Later(<<sb, b>>, q) /\ sbq[q[1]][q[2]].adm.present}
    IN  IF rest = {} THEN <<0, 0>>
        ELSE CHOOSE q \in rest : \A r \in rest : r = q \/ Later(q, r)

\* the loop moves on to its next bid; after the last one the response is sent:
\* res.status(upstreamResp.status).json(bidResp)
advance(l, sbq) ==
    LET n == nextBid(l.sb, l.b, sbq)
    IN  IF n = <<0, 0>>
        THEN [l EXCEPT !.pc = "sent", !.sent = l.upstream]
        ELSE [l EXCEPT !.pc = "stepA", !.sb = n[1], !.b = n[2], !.didUnwrap = FALSE]

\* a catch that only logs the failure
\* a catch that also drops the markup of the bid
unwrapFailedBlanksAdm(bid) ==
    [bid EXCEPT !.unwrapCall = "threw",
                !.adm = NoXml,
                !.unwrap = [NoUnwrap EXCEPT !.present = TRUE, !.depth = -1,
                                            !.cached = "n/a",
                                            !.error = "unwrap-failed"]]

unwrapFailedUnrecorded(bid) ==
    [bid EXCEPT !.unwrapCall = "threw"]

\* catch (e) of STEP A
unwrapFailed(bid) ==
    [bid EXCEPT !.unwrapCall = "threw",
                !.unwrap = [NoUnwrap EXCEPT !.present = TRUE, !.depth = -1,
                                            !.cached = "n/a",
                                            !.error = "unwrap-failed"]]

\* catch (e) of STEP B
mergeFailed(bid, rvUrl) ==
    [bid EXCEPT !.mergeCall = "threw",
                !.unwrap = [@ EXCEPT !.present = TRUE, !.mergedWrapperImps = "false",
                                     !.rvUrl = rvUrl,
                                     !.reason = "rv-fetch-or-merge-failed"]]

\* the body was parsed as JSON; the loops start
LoopStart ==
    /\ loop.pc = "parsed"
    /\ loop' = advance(loop, seatbid)
    /\ UNCHANGED <<ipVars, hVars, rVars, mVars, bodyResult, seatbid>>

\* STEP A on a Wrapper adm with a VASTAdTagURI: resolveToInlineWithMeta(next)
StepAStart ==
    /\ loop.pc = "stepA"
    /\ includesWrapper(bidAt.adm)
    /\ getVastAdTagUri(bidAt.adm.xml) # None
    /\ ResolveStart(1, {getVastAdTagUri(bidAt.adm.xml)})

\* STEP A on an adm without "<Wrapper", or on a Wrapper without VASTAdTagURI
\* (unwrapAdmIfWrapper returns replaced: false)
StepASkip ==
    /\ loop.pc = "stepA"
    /\ call[1].pc = "idle"
    /\ ~includesWrapper(bidAt.adm) \/ getVastAdTagUri(bidAt.adm.xml) = None
    /\ loop' = [loop EXCEPT !.pc = "stepB"]
    /\ UNCHANGED <<ipVars, hVars, rVars, mVars, bodyResult, seatbid>>

\* unwrapAdmIfWrapper settles: the bid is rewritten and annotated, or the
\* failure is caught
StepAEnd ==
    /\ loop.pc = "stepA"
    /\ call[1].pc \in {"done", "failed"}
    /\ IF call[1].pc = "done"
       THEN /\ seatbid' = setBid([bidAt EXCEPT
                   !.adm = call[1].result.xml,
                   !.unwrapCall = "returned",
                   !.unwrap = [NoUnwrap EXCEPT !.present = TRUE,
                                               !.depth = call[1].result.depth,
                                               !.cached = call[1].result.cached]])
            /\ loop' = [loop EXCEPT !.pc = "stepB", !.didUnwrap = TRUE,
                                    !.anyReplaced = TRUE,
                                    !.anyCacheHit = @ \/ call[1].result.cached = "hit"]
       ELSE /\ seatbid' = setBid(unwrapFailed(bidAt))
            /\ loop' = [loop EXCEPT !.pc = "stepB"]
    /\ call' = [call EXCEPT ![1] = InitialCall]
    /\ UNCHANGED <<ipVars, hVars, mVars, bodyResult, cache, now, impDedup, fetches>>

\* STEP B on an InLine adm whose nurl gives an endpoint
StepBStart ==
    /\ loop.pc = "stepB"
    /\ bidAt.nurl.present
    /\ includesInLine(bidAt.adm)
    /\ deriveEquativRvUrlFromNurl(bidAt.nurl) # None
    /\ MergeImpsStart(2, bidAt.adm, deriveEquativRvUrlFromNurl(bidAt.nurl))

\* STEP B on an InLine adm whose nurl gives no endpoint
StepBNotDerived ==
    /\ loop.pc = "stepB"
    /\ call[2].pc = "idle"
    /\ bidAt.nurl.present
    /\ includesInLine(bidAt.adm)
    /\ deriveEquativRvUrlFromNurl(bidAt.nurl) = None
    /\ seatbid' = setBid([bidAt EXCEPT
            !.unwrap = [@ EXCEPT !.present = TRUE, !.mergedWrapperImps = "false",
                                 !.reason = "rv-url-not-derived"]])
    /\ loop' = advance(loop, seatbid)
    /\ UNCHANGED <<ipVars, hVars, rVars, mVars, bodyResult>>

\* STEP B does not apply: no nurl, or the adm has no "<InLine"
StepBSkip ==
    /\ loop.pc = "stepB"
    /\ call[2].pc = "idle"
    /\ ~(bidAt.nurl.present /\ includesInLine(bidAt.adm))
    /\ loop' = advance(loop, seatbid)
    /\ UNCHANGED <<ipVars, hVars, rVars, mVars, bodyResult, seatbid>>

\* mergeWrapperImpressionsIntoInlineXml settles: the bid is rewritten if the
\* markup changed and annotated, or the failure is caught
StepBEnd ==
    /\ loop.pc = "stepB"
    /\ call[2].pc \in {"done", "failed"}
    /\ IF call[2].pc = "done"
       THEN LET mergedXml == call[2].result.xml
                changed == mergedXml # bidAt.adm
            IN  /\ seatbid' = setBid([bidAt EXCEPT
                       !.adm = IF changed THEN mergedXml ELSE @,
                       !.mergeCall = "returned",
                       !.unwrap = [@ EXCEPT
                           !.present = TRUE,
                           !.mergedWrapperImps = IF changed THEN "true" ELSE "false",
                           !.rvUrl = call[2].vastUrl,
                           !.stats = call[2].stats,
                           !.reason = IF changed THEN None ELSE "no-change"]])
                /\ loop' = [advance(loop, seatbid) EXCEPT
                                !.anyMergedWrapperImps = @ \/ changed]
       ELSE /\ seatbid' = setBid(mergeFailed(bidAt, call[2].vastUrl))
            /\ loop' = advance(loop, seatbid)
    /\ call' = [call EXCEPT ![2] = InitialCall]
    /\ UNCHANGED <<ipVars, hVars, mVars, bodyResult, cache, now, impDedup, fetches>>

(***************************************************************************)
(* Bid-loop specification: any response of up to MaxBids bids, spread in   *)
(* every way over seatbids; every fetch made for a bid is answered with    *)
(* any document of the sets below, fails, or times out.                    *)
(***************************************************************************)
MaxBids == 3

UpstreamStatuses == {200, 500}

BidInline == Vast("InLine", None, <<ImpC>>, <<Creative(TRUE, <<TrkC>>)>>)

GoodNurl ==
    [present |-> TRUE, host |-> "ssb-use1.example", bidid |-> "7", bidnwid |-> "9"]

BadNurl ==
    [present |-> TRUE, host |-> "ssb-use1.example", bidid |-> None, bidnwid |-> "9"]

Bids ==
    {Bid(markup(CacheWrapper), GoodNurl),
     Bid(markup(Vast("Wrapper", None, <<ImpA>>, <<>>)), NoNurl),
     Bid(markup(BidInline), GoodNurl),
     Bid(markup(BidInline), BadNurl),
     Bid(NoXml, NoNurl)}

BidLists == UNION {[1..n -> Bids] : n \in 0..MaxBids}

\* the bids of q as seatbids: a new seatbid starts at each position of starts
SeatsOf(q, starts) ==
    LET first == CHOOSE f \in [1..Cardinality(starts) -> starts] :
                     \A i, j \in 1..Cardinality(starts) : i < j => f[i] < f[j]
        last(k) == IF k = Cardinality(starts) THEN Len(q) ELSE first[k + 1] - 1
    IN  [k \in 1..Cardinality(starts) |-> SubSeq(q, first[k], last(k))]

BidResponses ==
    {<<>>} \cup
    UNION {{SeatsOf(q, {1} \cup more) : more \in SUBSET (2..Len(q))} :
              q \in BidLists \ {<<>>}}

BidChainDocs == {BidInline, NoDoc}

BidRvDocs == {RvWrapper, NoDoc}

BidsInit ==
    /\ ClassifierIdle
    /\ HandlerIdle
    /\ MergeIdle
    /\ bodyResult = NoBody
    /\ cache = {}
    /\ now = 0
    /\ impDedup = FALSE
    /\ call = [p \in {1, 2} |-> InitialCall]
    /\ fetches = <<>>
    /\ seatbid \in BidResponses
    /\ \E st \in UpstreamStatuses : loop = [NoLoop EXCEPT !.pc = "parsed", !.upstream = st]

BidsNext ==
    \/ LoopStart
    \/ StepAStart
    \/ StepASkip
    \/ StepAEnd
    \/ StepBStart
    \/ StepBNotDerived
    \/ StepBSkip
    \/ StepBEnd
    \/ \E p \in DOMAIN call : FetchResponds(p)
    \/ \E p \in DOMAIN call : FetchFails(p)
    \/ \E p \in DOMAIN call : TimerFires(p)
    \/ \E p \in DOMAIN call : TextFails(p)
    \/ TextArrives(1, BidChainDocs)
    \/ RespondsNotOk(2)
    \/ MergeImpsTextArrives(2, BidRvDocs)

SpecBids == BidsInit /\ [][BidsNext]_vars

\* the two calls the loop owes a bid have been made and have settled
Processed(bid) ==
    /\ (includesWrapper(bid.admIn) /\ getVastAdTagUri(bid.admIn.xml) # None) =>
           bid.unwrapCall \in {"returned", "threw"}
    /\ (bid.nurl.present /\ includesInLine(bid.adm)
           /\ deriveEquativRvUrlFromNurl(bid.nurl) # None) =>
           bid.mergeCall \in {"returned", "threw"}

\* C18: in the bid loop a failed unwrapAdmIfWrapper or
\* mergeWrapperImpressionsIntoInlineXml call (fetch error, timeout, unreadable
\* body, wrapper without redirect target) is recorded in ext.unwrap of the bid
\* it was made for; no status other than the upstream's is ever sent; and when
\* the response is sent every bid of every seatbid has been processed
C18_FailuresAnnotatedLoopCompletes ==
    /\ loop.sent \in {0, loop.upstream}
    /\ \A q \in Positions(seatbid) :
          LET bid == seatbid[q[1]][q[2]]
          IN  /\ bid.unwrapCall = "threw" =>
                    /\ bid.unwrap.present
                    /\ bid.unwrap.error = "unwrap-failed"
                    /\ bid.unwrap.depth = -1
              /\ bid.mergeCall = "threw" =>
                    /\ bid.unwrap.present
                    /\ bid.unwrap.mergedWrapperImps = "false"
                    /\ bid.unwrap.reason = "rv-fetch-or-merge-failed"
    /\ loop.pc = "sent" =>
          /\ loop.sent = loop.upstream
          /\ \A q \in Positions(seatbid) : Processed(seatbid[q[1]][q[2]])

\* a response with status 500 has been sent after the unwrap of a bid of the
\* first seatbid failed, the merge for another bid failed, and a bid of the
\* second seatbid was unwrapped
C18_Witness ==
    /\ loop.pc = "sent"
    /\ loop.sent = 500
    /\ \E p, q, r \in Positions(seatbid) :
          /\ Later(p, q)
          /\ p[1] # q[1]
          /\ seatbid[p[1]][p[2]].unwrapCall = "threw"
          /\ seatbid[q[1]][q[2]].unwrapCall = "returned"
          /\ seatbid[q[1]][q[2]].adm # seatbid[q[1]][q[2]].admIn
          /\ seatbid[r[1]][r[2]].mergeCall = "threw"

(***************************************************************************)
(* Endpoint selection: step 1 of the hardened handler, with every source   *)
(* of the candidate endpoint present or absent.                            *)
(***************************************************************************)
B64Texts ==
    {"aHR0cHM6Ly9iaWQuZXhhbXBsZS9ydGI=", "aHR0cHM6Ly9jZG4uZXhhbXBsZS9ydGI=", "!"}

EndpointRequests ==
    {[method |-> "POST", b64 |-> b, header |-> h, qp |-> q, body |-> "json"] :
        b \in B64Texts \cup {None},
        h \in UrlTexts \cup {"https://[::1]/rtb", None},
        q \in UrlTexts \cup {None}}

EndpointEnvs ==
    {[allowlist |-> al, prod |-> pr, default |-> d] :
        al \in {{}, {"bid.example"}},
        pr \in BOOLEAN,
        d \in {None, "https://bid.example/rtb", "https://cdn.example/rtb"}}

EndpointInit ==
    /\ ClassifierIdle
    /\ BidsIdle
    /\ ResolverIdle
    /\ MergeIdle
    /\ hpc = "start"
    /\ hreq \in EndpointRequests
    /\ henv \in EndpointEnvs
    /\ candidate = None
    /\ current = NoUrl
    /\ redirects = 0
    /\ requests = <<>>
    /\ lastAddrs = {}
    /\ timer = "unarmed"
    /\ hresp = NoResp
    /\ hstatus = 0

EndpointNext == HandlerStart

SpecEndpoint == EndpointInit /\ [][EndpointNext]_vars

\* what each source yields, in priority order: the decoded base64 header, the
\* raw header, the query parameter (outside production), the default
sourceValues(req, env) ==
    << IF req.b64 # None THEN B64Decode(req.b64) ELSE None,
       req.header,
       IF env.prod THEN None ELSE req.qp,
       env.default >>

\* the value of the first source that yields one
firstAvailable(values) ==
    IF \E k \in 1..Len(values) : values[k] # None
    THEN values[CHOOSE k \in 1..Len(values) :
                    /\ values[k] # None
                    /\ \A j \in 1..(k - 1) : values[j] = None]
    ELSE None

\* C24: the candidate endpoint is the value of the first source that yields
\* one, in the order base64 header (decoded), raw header, query parameter,
\* default; a lower source is used only when every higher one yields nothing.
C24_FirstAvailableSource ==
    (hpc # "start") => candidate = firstAvailable(sourceValues(hreq, henv))

FailedUnwrapLeavesAdm(bid) ==
    bid.unwrapCall = "threw" =>
        /\ bid.adm = bid.admIn
        /\ bid.unwrap.present
        /\ bid.unwrap.depth = -1
        /\ bid.unwrap.error = "unwrap-failed"

C28_AdmWrapperEntriesKept ==
    \A q \in Positions(seatbid) :
        LET bid == seatbid[q[1]][q[2]]
        IN  (bid.unwrapCall = "returned" /\ bid.mergeCall = None) =>
                /\ impressionUrls(bid.admIn.xml) \subseteq impressionUrls(bid.adm.xml)
                /\ Range(declaredTracking(bid.admIn.xml))
                       \subseteq Range(declaredTracking(bid.adm.xml))

\* the request reaches resolveAndCheckHost with a host name: its candidate
\* passed the https, credentials and allowlist tests and is no IP literal
hostLookedUp ==
    /\ hreq.method = "POST"
    /\ hpc # "start"
    /\ candidateUrl # NoUrl
    /\ ~candidateInvalid
    /\ netIsIP(candidateUrl.host) = 0

\* C31: resolveAndCheckHost succeeds exactly when the host resolves to at
\* least one address and no resolved address lies in a forbidden range; a
\* set mixing public and forbidden addresses is rejected with 403, an empty
\* set with 502.
C31_AcceptsIffAllPublic ==
    hostLookedUp =>
        /\ lastAddrs = {} => (hpc = "done" /\ hstatus = 502)
        /\ (\E a \in lastAddrs : DocumentedForbiddenOfPool[a]) =>
               (hpc = "done" /\ hstatus = 403)
        /\ (lastAddrs # {} /\ \A a \in lastAddrs : ~DocumentedForbiddenOfPool[a]) =>
               (hpc = "body" /\ current = candidateUrl)

\* C32: a URL whose host is an IP literal, IPv4 or bracketed IPv6, is rejected
\* by resolveAndCheckHost with status 403 and without a DNS lookup.
C32_IpLiteralRejectedAtOnce ==
    (/\ hreq.method = "POST"
     /\ hpc # "start"
     /\ candidateUrl # NoUrl
     /\ ~candidateInvalid
     /\ candidateUrl.host \in IpLiteralHosts)
        => (hpc = "done" /\ hstatus = 403 /\ lastAddrs = {})

(***************************************************************************)
(* Concurrent resolutions: two requests call resolveToInlineWithMeta on    *)
(* the same module, so on one cache, and their awaits interleave freely;   *)
(* both run within one TTL window.                                         *)
(***************************************************************************)
ConcurrentDocs == CacheDocs \cup {NoDoc}

ConcurrentInit ==
    /\ ClassifierIdle
    /\ BidsIdle
    /\ HandlerIdle
    /\ MergeIdle
    /\ cache = {}
    /\ now = 0
    /\ impDedup = FALSE
    /\ call = [p \in {1, 2} |-> InitialCall]
    /\ fetches = <<>>

ConcurrentNext ==
    \/ \E p \in DOMAIN call : ResolveStart(p, CacheUrls)
    \/ \E p \in DOMAIN call : FetchResponds(p)
    \/ \E p \in DOMAIN call : FetchFails(p)
    \/ \E p \in DOMAIN call : TimerFires(p)
    \/ \E p \in DOMAIN call : TextFails(p)
    \/ \E p \in DOMAIN call : TextArrives(p, ConcurrentDocs)

SpecConcurrent == ConcurrentInit /\ [][ConcurrentNext]_vars

\* C34: a resolution that starts while another resolution of the same URL is
\* still awaiting its fetch or its body issues no fetch of its own, so the two
\* make one fetch chain in total.
C34_ConcurrentSecondDoesNotFetch ==
    [][\A p, q \in DOMAIN call :
          (/\ p # q
           /\ call[p].pc \in {"fetching", "reading"}
           /\ call[q].pc = "idle"
           /\ call'[q].pc # "idle"
           /\ call'[q].vastUrl = call[p].vastUrl)
          => fetches' = fetches]_vars

\* C35: under every interleaving each cache entry holds the serialization of
\* a document with an InLine ad, written by a resolution that found its
\* terminal InLine; a resolution that fails, or that never finds an InLine,
\* writes nothing to the cache.
C35_CacheHoldsOnlyInline ==
    /\ [](\A e \in cache :
            /\ e.val.present
            /\ e.val.form = "built"
            /\ getInline(e.val.xml)
            /\ \E p \in DOMAIN call :
                  /\ call[p].pc = "done"
                  /\ call[p].result.cached = "miss"
                  /\ call[p].result.xml = e.val
                  /\ getInline(call[p].served[Len(call[p].served)]))
    /\ [][\A p \in DOMAIN call :
            (call[p].pc # "failed" /\ call'[p].pc = "failed") => cache' = cache]_vars

(***************************************************************************)
(* The connection behind each fetch() of secureFetch.  fetch(current) is   *)
(* given the URL, not the addresses resolveAndCheckHost returned: the      *)
(* socket looks the host up again, and the name servers may answer that    *)
(* lookup differently.                                                     *)
(***************************************************************************)
\* addresses the socket's own lookup can come back with
ConnectTargets == {Public4, Loopback4}

\* secureFetch: fetch(current, {redirect: "manual", signal}), with the address
\* the socket connects to and whether validation had accepted it for the hop
IssueRequestConnect ==
    /\ hpc = "fetch"
    /\ \E to \in ConnectTargets :
        requests' = Append(requests,
            [url |-> current, to |-> to, checked |-> to \in lastAddrs])
    /\ hpc' = "inflight"
    /\ UNCHANGED <<ipVars, bVars, rVars, mVars, hreq, henv, candidate, current, redirects, lastAddrs, timer, hresp, hstatus>>

RebindInit ==
    /\ ClassifierIdle
    /\ BidsIdle
    /\ ResolverIdle
    /\ MergeIdle
    /\ hpc = "start"
    /\ hreq = [method |-> "POST", b64 |-> None, header |-> "https://bid.example/rtb",
               qp |-> None, body |-> "json"]
    /\ henv = [allowlist |-> {}, prod |-> TRUE, default |-> None]
    /\ candidate = None
    /\ current = NoUrl
    /\ redirects = 0
    /\ requests = <<>>
    /\ lastAddrs = {}
    /\ timer = "unarmed"
    /\ hresp = NoResp
    /\ hstatus = 0

RebindNext ==
    \/ HandlerStart
    \/ HandlerParseBody
    \/ IssueRequestConnect
    \/ ReceiveRedirect
    \/ ReceiveFinal
    \/ NetworkFailure
    \/ DeadlineFires
    \/ Deliver

SpecRebind == RebindInit /\ [][RebindNext]_vars

\* C36: every request secureFetch sends connects to one of the addresses
\* resolveAndCheckHost accepted for that hop's host, whatever the name
\* servers answer after the check, and so to no forbidden address.
C36_ConnectsOnlyToCheckedAddress ==
    \A i \in 1..Len(requests) :
        /\ requests[i].checked
        /\ ~DocumentedForbiddenOfPool[requests[i].to]

====
